---- MODULE Spec2Model ----
(***************************************************************************)
(* A model of the message bridge: the Host's dispatch loop and shutdown    *)
(* (imirror/core/host.py) and the IRC plug's wait/collect correlation      *)
(* (immp/plug/irc.py).                                                     *)
(***************************************************************************)
EXTENDS Integers, Sequences, FiniteSets, TLC

(***************************************************************************)
(* Bounds of the model.                                                    *)
(***************************************************************************)
\* items the transports emit in a behaviour, all together
MaxEvents == 3
\* tasks that raise in a behaviour
MaxFaults == 1
\* registry calls made after run() was called
MaxLateOps == 1

\* names a configuration may use
TransportNames == {"t1", "t2"}
ReceiverNames == {"r1", "r2"}
ChannelNames == {"c1", "c2"}
\* the instances that may carry one name, and the channel identifiers a
\* configuration names
Instances == {"x", "y"}
Sources == {"#a"}

\* an event is <<transport, n>>: the n-th item the transport emitted
Events == TransportNames \X (1..MaxEvents)
NoEvent == <<>>

(***************************************************************************)
(* State of the Host (host.py:28-32) and of the tasks run() and close()    *)
(* are suspended on.                                                       *)
(***************************************************************************)
VARIABLES
    transports,   \* Host.transports: the registered transport names
    receivers,    \* Host.receivers: the registered receiver names
    transportOf,  \* Host.transports: per registered name, the instance
    receiverOf,   \* Host.receivers: per registered name, the instance
    channels,     \* Host.channels: per registered name, the Channel
    regCall,      \* history: the registry call observed last
    regErr,       \* history: the exception it raised, "none" if it returned
    running,      \* Host.running
    connected,    \* Transport.connected, per transport
    inbox,        \* per transport, the items receive() has yet to yield
    emitted,      \* per transport, how many items it has emitted
    runPc,        \* where run() is
    runErr,       \* the exception run() ended with, "none" if none
    connTasks,    \* the connect() tasks of host.py:200
    startTasks,   \* the start() tasks of host.py:205
    getters,      \* the transports whose receive() was merged (host.py:209)
    current,      \* the merged item being fanned out
    procTasks,    \* the process() tasks in flight: records [recv, ev]
    closePc,      \* where close() is
    closeErr,     \* the exception close() ended with
    stopTasks,    \* the stop() tasks of host.py:220
    discTasks,    \* the disconnect() tasks of host.py:221
    delivered,    \* history: the merged items in fan-out order
    fanRecv,      \* history: per event, the receivers registered at its fan-out
    calls,        \* history: per <<event, receiver>>, the process() calls started
    completed,    \* history: the <<event, receiver>> calls that finished
    raised,       \* history: the <<event, receiver>> calls that raised
    lateOps,      \* history: the registry calls made after run() was called
    inFlight      \* history: the process() tasks in flight when close() was called

regVars == <<transports, receivers, transportOf, receiverOf, channels, regCall, regErr>>
runVars == <<running, runPc, runErr, connTasks, startTasks, getters, current, procTasks>>
closeVars == <<closePc, closeErr, stopTasks, discTasks>>
netVars == <<connected, inbox, emitted>>
histVars == <<delivered, fanRecv, calls, completed, raised, lateOps, inFlight>>
hostVars == <<regVars, runVars, closeVars, netVars, histVars>>

(***************************************************************************)
(* State of one IRCPlug (irc.py:246-255), of Line._last_ts (irc.py:65) and *)
(* of the callers suspended in IRCPlug.wait.                               *)
(***************************************************************************)
VARIABLES
    _data,        \* IRCPlug._data: command -> the lines buffered for it
    _waits,       \* IRCPlug._waits: the list of <<commands, cond>> pairs
    _joins,       \* IRCPlug._joins: channels whose self-join is still to come
    _source,      \* IRCPlug._source: the nick the server knows the plug by, "" for None
    _last_ts,     \* Line._last_ts
    nick,         \* config["user"]["nick"]
    wire,         \* the lines written to the writer of the connection, oldest first
    queued,       \* the messages handed to Plug.queue, oldest first
    handled,      \* how many inbound lines the read loop has handled
    wpc,          \* per caller of wait(), where it is
    wreg,         \* per caller of wait(), the arguments of its call
    wret,         \* per caller of wait(), what its call returned
    wexp          \* history: per caller and collect command of its call, the lines
                  \* with that command handled since the call registered

(***************************************************************************)
(* State of the plug's connection (irc.py:247, 265-310): the stream, the   *)
(* tasks that run start() and _read_loop(), and the server at the far end. *)
(***************************************************************************)
VARIABLES
    _reader,      \* IRCPlug._reader: the task of the read loop, "" for None
    _writer,      \* IRCPlug._writer: the connection it writes to, 0 for None
    spc,          \* per task, where it is in start() or _read_loop()
    conns,        \* how many connections open_connection() has opened
    inbound,      \* the lines the server has sent on the connection, yet to be read
    srv,          \* the server's side of the connection
    used,         \* how much of its bounded freedom the server has used
    stopped,      \* history: stop() has been called
    lastLine,     \* history: the line the read loop handled last
    collided,     \* history: how many 433 replies were handled
    welcomed      \* history: the read loop has handled the 001 of the connection

plugVars == <<_joins, _source, _last_ts, nick, wire, queued>>
waitVars == <<_data, _waits, wpc, wreg, wret>>
lifeVars == <<_reader, _writer, spc, conns, inbound, srv, used>>
lifeHist == <<stopped, lastLine, welcomed>>
ircVars == <<plugVars, waitVars, handled, wexp, collided, lifeVars, lifeHist>>

(***************************************************************************)
(* State of a conversion under way: DiscordRichText.to_markdown            *)
(* (discord.py:152-190) as it goes over the segments, and for the          *)
(* conversions that are one step, what was given and what came of it.      *)
(***************************************************************************)
VARIABLES
    text,         \* to_markdown: the tokens appended to text, oldest first
    active,       \* to_markdown: the list of open tags
    segments,     \* to_markdown: the segments gone over, oldest first
    mpc,          \* to_markdown: where it is
    called,       \* the one-step conversion applied, "" if none
    given,        \* what it was given
    result        \* what it returned or raised

textVars == <<text, active, segments, mpc, called, given, result>>

(***************************************************************************)
(* State of sending: what put() returned, the dispatch of the plug's       *)
(* queue to AutoRespondHook.process (autorespond.py:67-79), and the hook's *)
(* record of what it sent.                                                 *)
(***************************************************************************)
VARIABLES
    ids,          \* what the last put() of the plug returned
    _sent,        \* AutoRespondHook._sent
    hpc,          \* where AutoRespondHook.process is
    hidx,         \* process: how many of the responses it has gone over
    event,        \* the message the run loop took last from the plug
    dispatched,   \* how many messages the run loop has taken from the plug
    own,          \* history: the ids channel.send returned to the hook
    puts          \* history: how many times a put was called

sendVars == <<ids, _sent, hpc, hidx, event, dispatched, own, puts>>

\* what no step of the plug changes, what no step of the Host changes, and
\* what no conversion changes
besideIrc == <<hostVars, textVars, sendVars>>
besideHost == <<ircVars, textVars, sendVars>>
besideText == <<hostVars, ircVars, sendVars>>

vars == <<hostVars, ircVars, textVars, sendVars>>

NoTasks(S) == [x \in S |-> "none"]

\* the tasks asyncio.wait makes of one coroutine per member of fs
TasksFor(S, fs) == [x \in S |-> IF x \in fs THEN "pending" ELSE "none"]

Pending(tasks) == {x \in DOMAIN tasks : tasks[x] = "pending"}

\* a call of a registry method, as regCall keeps it
Call(op, name, args) == [op |-> op, name |-> name, args |-> args]
NoCall == Call("none", "", <<>>)

\* no conversion was called
TextInit ==
    /\ text = <<>>
    /\ active = <<>>
    /\ segments = <<>>
    /\ mpc = "idle"
    /\ called = ""
    /\ given = <<>>
    /\ result = <<>>

\* no message taken by the run loop
NoMessage ==
    [id |-> 0, channel |-> "", user |-> "", text |-> <<>>, action |-> FALSE,
     joined |-> <<>>, left |-> <<>>]

\* autorespond.py:53: nothing was sent, and the run loop has taken nothing
SendInit ==
    /\ ids = <<>>
    /\ _sent = <<>>
    /\ hpc = "idle"
    /\ hidx = 0
    /\ event = NoMessage
    /\ dispatched = 0
    /\ own = {}
    /\ puts = 0

\* host.py:28-32: the registries of a new Host
RegistryInit ==
    /\ transports = {}
    /\ receivers = {}
    /\ transportOf = <<>>
    /\ receiverOf = <<>>
    /\ channels = <<>>
    /\ regCall = NoCall
    /\ regErr = "none"

\* host.py:28-32, with no task started and nothing emitted
HostInit ==
    /\ running = FALSE
    /\ connected = [t \in TransportNames |-> FALSE]
    /\ inbox = [t \in TransportNames |-> <<>>]
    /\ emitted = [t \in TransportNames |-> 0]
    /\ runPc = "idle"
    /\ runErr = "none"
    /\ connTasks = NoTasks(TransportNames)
    /\ startTasks = NoTasks(ReceiverNames)
    /\ getters = {}
    /\ current = NoEvent
    /\ procTasks = {}
    /\ closePc = "idle"
    /\ closeErr = "none"
    /\ stopTasks = NoTasks(ReceiverNames)
    /\ discTasks = NoTasks(TransportNames)
    /\ delivered = <<>>
    /\ fanRecv = [e \in Events |-> {}]
    /\ calls = [c \in Events \X ReceiverNames |-> 0]
    /\ completed = {}
    /\ raised = {}
    /\ lateOps = 0
    /\ inFlight = {}

(***************************************************************************)
(* The registry.                                                           *)
(***************************************************************************)
\* the registry is called freely before run(), MaxLateOps times after
RegistryCall ==
    /\ UNCHANGED besideHost
    /\ runPc = "idle" \/ lateOps < MaxLateOps
    /\ lateOps' = IF runPc = "idle" THEN lateOps ELSE lateOps + 1
    /\ UNCHANGED <<runVars, closeVars, netVars, delivered, fanRecv, calls, completed, raised,
                   inFlight>>

\* history: the call a step makes and the exception it raises are kept, or
\* the step is of a caller whose calls are not followed
Observed(op, name, args, err) == regCall' = Call(op, name, args) /\ regErr' = err
Unobserved == UNCHANGED <<regCall, regErr>>

\* host.py:62-71: the instance x, whose name is t, is registered
add_transport(t, x) ==
    /\ transports' = transports \cup {t}
    /\ transportOf' = [n \in transports \cup {t} |-> IF n = t THEN x ELSE transportOf[n]]
    /\ RegistryCall
    /\ UNCHANGED <<receivers, receiverOf, channels>>

\* (mutation) the connected flag is not looked at
RemoveTransportErrorAbsent(t) ==
    IF t \notin transports THEN "RuntimeError: not registered" ELSE "none"

\* host.py:81-86: what remove_transport raises
RemoveTransportError(t) ==
    IF t \notin transports THEN "RuntimeError: not registered"
    ELSE IF connected[t] THEN "RuntimeError: still connected"
    ELSE "none"

\* host.py:73-87
remove_transport(t) ==
    /\ IF RemoveTransportError(t) = "none"
       THEN /\ transports' = transports \ {t}
            /\ transportOf' = [n \in transports \ {t} |-> transportOf[n]]
       ELSE UNCHANGED <<transports, transportOf>>
    /\ RegistryCall
    /\ UNCHANGED <<receivers, receiverOf, channels>>

\* (mutation) the channel name is not looked up
AddChannelErrorTransport(name, t) ==
    IF t \notin transports THEN "ConfigError: transport not registered" ELSE "none"

\* host.py:101-106: what add_channel raises
AddChannelError(name, t) ==
    IF name \in DOMAIN channels THEN "ConfigError: already registered"
    ELSE IF t \notin transports THEN "ConfigError: transport not registered"
    ELSE "none"

\* Channel(name, transport, source) (host.py:108), of the instance
\* registered as t
Channel(t, source) == [transport |-> t, instance |-> transportOf[t], source |-> source]

\* host.py:89-108
add_channel(name, t, source) ==
    /\ IF AddChannelError(name, t) = "none"
       THEN channels' = [c \in DOMAIN channels \cup {name} |->
                            IF c = name THEN Channel(t, source) ELSE channels[c]]
       ELSE UNCHANGED channels
    /\ RegistryCall
    /\ UNCHANGED <<transports, transportOf, receivers, receiverOf>>

\* host.py:118-121: what remove_channel raises
RemoveChannelError(name) ==
    IF name \in DOMAIN channels THEN "none" ELSE "RuntimeError: not registered"

\* host.py:110-121
remove_channel(name) ==
    /\ channels' = [c \in DOMAIN channels \ {name} |-> channels[c]]
    /\ RegistryCall
    /\ UNCHANGED <<transports, transportOf, receivers, receiverOf>>

\* host.py:151-159: the instance x, whose name is r, is registered
add_receiver(r, x) ==
    /\ receivers' = receivers \cup {r}
    /\ receiverOf' = [n \in receivers \cup {r} |-> IF n = r THEN x ELSE receiverOf[n]]
    /\ RegistryCall
    /\ UNCHANGED <<transports, transportOf, channels>>

\* host.py:169-172: what remove_receiver raises
RemoveReceiverError(r) ==
    IF r \in receivers THEN "none" ELSE "RuntimeError: not registered"

\* host.py:161-172
remove_receiver(r) ==
    /\ receivers' = receivers \ {r}
    /\ receiverOf' = [n \in receivers \ {r} |-> receiverOf[n]]
    /\ RegistryCall
    /\ UNCHANGED <<transports, transportOf, channels>>

(***************************************************************************)
(* The transports and receivers themselves: Transport and Receiver are     *)
(* not among the sources; what they do follows the Connection and          *)
(* Consumer contracts.                                                     *)
(***************************************************************************)
\* a connected transport emits its next item; receive() yields in this order
Emit(t) ==
    /\ UNCHANGED besideHost
    /\ connected[t]
    /\ Cardinality({e \in Events : e[2] <= emitted[e[1]]}) < MaxEvents
    /\ emitted' = [emitted EXCEPT ![t] = @ + 1]
    /\ inbox' = [inbox EXCEPT ![t] = Append(@, emitted[t] + 1)]
    /\ UNCHANGED <<connected, regVars, runVars, closeVars, histVars>>

\* transport.connect() returns
ConnectDone(t) ==
    /\ UNCHANGED besideHost
    /\ connTasks[t] = "pending"
    /\ connTasks' = [connTasks EXCEPT ![t] = "done"]
    /\ connected' = [connected EXCEPT ![t] = TRUE]
    /\ UNCHANGED <<inbox, emitted, regVars, closeVars, histVars,
                   running, runPc, runErr, startTasks, getters, current, procTasks>>

\* receiver.start() returns
StartDone(r) ==
    /\ UNCHANGED besideHost
    /\ startTasks[r] = "pending"
    /\ startTasks' = [startTasks EXCEPT ![r] = "done"]
    /\ UNCHANGED <<netVars, regVars, closeVars, histVars,
                   running, runPc, runErr, connTasks, getters, current, procTasks>>

(***************************************************************************)
(* Host.run (host.py:194-214).  asyncio.wait(fs) raises ValueError at once *)
(* when fs is empty; otherwise it makes one task per coroutine and returns *)
(* when all have finished, whatever their outcome: a task's exception      *)
(* stays in the task, and run() drops the sets wait() returns.             *)
(***************************************************************************)
\* (mutation) wait() re-raises the exception of a task, as gather() does
TaskRaisedPropagated(kind) == kind

\* what the caller of `await wait(...)` sees when one of the tasks raises
TaskRaised(kind) == "none"

\* the tasks that have raised so far
Faults ==
    Cardinality(raised) + Cardinality({t \in TransportNames : connTasks[t] = "failed"})
    + Cardinality({r \in ReceiverNames : startTasks[r] = "failed"})

\* host.py:208-211: running is set, the receive() of every transport
\* registered now is merged, and run() suspends on the merged stream; a
\* merge of no streams ends at once
EnterLoop ==
    /\ running' = TRUE
    /\ getters' = transports
    /\ runPc' = IF transports = {} THEN "returned" ELSE "pull"

\* host.py:203-207, then on to the loop when no receiver is registered
StartReceivers ==
    IF receivers # {}
    THEN /\ startTasks' = TasksFor(ReceiverNames, receivers)
         /\ runPc' = "starting"
         /\ UNCHANGED <<running, getters>>
    ELSE /\ EnterLoop
         /\ UNCHANGED startTasks

\* host.py:198-202: run() is called
RunBegin ==
    /\ UNCHANGED besideHost
    /\ runPc = "idle"
    /\ IF transports # {}
       THEN /\ connTasks' = TasksFor(TransportNames, transports)
            /\ runPc' = "connecting"
            /\ UNCHANGED <<running, getters, startTasks>>
       ELSE /\ StartReceivers
            /\ UNCHANGED connTasks
    /\ UNCHANGED <<runErr, current, procTasks, regVars, closeVars, netVars, histVars>>

\* transport.connect() raises inside its task (host.py:200)
ConnectFail(t) ==
    /\ UNCHANGED besideHost
    /\ connTasks[t] = "pending"
    /\ Faults < MaxFaults
    /\ connTasks' = [connTasks EXCEPT ![t] = "failed"]
    /\ runErr' = TaskRaised("ConnectError")
    /\ runPc' = IF runErr' = "none" THEN runPc ELSE "raised"
    /\ UNCHANGED <<running, startTasks, getters, current, procTasks,
                   regVars, closeVars, netVars, histVars>>

\* receiver.start() raises inside its task (host.py:205)
StartFail(r) ==
    /\ UNCHANGED besideHost
    /\ startTasks[r] = "pending"
    /\ Faults < MaxFaults
    /\ startTasks' = [startTasks EXCEPT ![r] = "failed"]
    /\ runErr' = TaskRaised("StartError")
    /\ runPc' = IF runErr' = "none" THEN runPc ELSE "raised"
    /\ UNCHANGED <<running, connTasks, getters, current, procTasks,
                   regVars, closeVars, netVars, histVars>>

\* host.py:200 returns: every connect() task has finished
RunConnected ==
    /\ UNCHANGED besideHost
    /\ runPc = "connecting"
    /\ Pending(connTasks) = {}
    /\ StartReceivers
    /\ UNCHANGED <<runErr, connTasks, current, procTasks,
                   regVars, closeVars, netVars, histVars>>

\* host.py:205 returns: every start() task has finished
RunStarted ==
    /\ UNCHANGED besideHost
    /\ runPc = "starting"
    /\ Pending(startTasks) = {}
    /\ EnterLoop
    /\ UNCHANGED <<runErr, connTasks, startTasks, current, procTasks,
                   regVars, closeVars, netVars, histVars>>

\* (mutation) the merge yields the newest item of the transport
MergeNewest(t) == <<t, inbox[t][Len(inbox[t])]>>

\* stream.merge (host.py:209-211): the next item of the merged stream is
\* the oldest item not yet yielded of one of the merged transports
MergeNext(t) == <<t, Head(inbox[t])>>

\* (mutation) the comprehension skips a receiver
FanOutButOne(ev) ==
    {[recv |-> r, ev |-> ev] : r \in receivers \ {CHOOSE x \in ReceiverNames : TRUE}}

\* host.py:213-214: the futures handed to wait(), one process() call per
\* receiver registered when the item is pulled
FanOut(ev) == {[recv |-> r, ev |-> ev] : r \in receivers}

\* host.py:211-214: the merged stream yields an item and it is fanned out
Pull(t) ==
    /\ UNCHANGED besideHost
    /\ runPc = "pull"
    /\ t \in getters
    /\ inbox[t] # <<>>
    /\ current' = MergeNext(t)
    /\ inbox' = [inbox EXCEPT ![t] = Tail(@)]
    /\ delivered' = Append(delivered, current')
    /\ fanRecv' = [fanRecv EXCEPT ![current'] = receivers]
    /\ IF FanOut(current') = {}
       THEN /\ runErr' = "ValueError"
            /\ runPc' = "raised"
            /\ UNCHANGED <<procTasks, calls>>
       ELSE /\ procTasks' = procTasks \cup FanOut(current')
            /\ calls' = [c \in DOMAIN calls |->
                           IF [recv |-> c[2], ev |-> c[1]] \in FanOut(current')
                           THEN calls[c] + 1 ELSE calls[c]]
            /\ runPc' = "fanout"
            /\ UNCHANGED runErr
    /\ UNCHANGED <<running, connTasks, startTasks, getters, connected, emitted,
                   completed, raised, lateOps, inFlight, regVars, closeVars>>

\* receiver.process(channel, msg) returns
ProcessDone(p) ==
    /\ UNCHANGED besideHost
    /\ p \in procTasks
    /\ procTasks' = procTasks \ {p}
    /\ completed' = completed \cup {<<p.ev, p.recv>>}
    /\ UNCHANGED <<running, runPc, runErr, connTasks, startTasks, getters, current,
                   delivered, fanRecv, calls, raised, lateOps, inFlight, regVars, closeVars, netVars>>

\* receiver.process(channel, msg) raises inside its task
ProcessFail(p) ==
    /\ UNCHANGED besideHost
    /\ p \in procTasks
    /\ Faults < MaxFaults
    /\ procTasks' = procTasks \ {p}
    /\ completed' = completed \cup {<<p.ev, p.recv>>}
    /\ raised' = raised \cup {<<p.ev, p.recv>>}
    /\ runErr' = TaskRaised("ProcessError")
    /\ runPc' = IF runErr' = "none" THEN runPc ELSE "raised"
    /\ UNCHANGED <<running, connTasks, startTasks, getters, current,
                   delivered, fanRecv, calls, lateOps, inFlight, regVars, closeVars, netVars>>

\* (mutation) wait() returns when the first task has finished
WaitReturnsFirst(ev) == \E r \in fanRecv[ev] : <<ev, r>> \in completed

\* host.py:213 returns when no task it waits on is pending
WaitReturns(ev) == \A p \in procTasks : p.ev # ev

\* host.py:213-214 returns and the loop asks the merged stream for more
FanOutDone ==
    /\ UNCHANGED besideHost
    /\ runPc = "fanout"
    /\ WaitReturns(current)
    /\ runPc' = "pull"
    /\ UNCHANGED <<running, runErr, connTasks, startTasks, getters, current, procTasks,
                   regVars, closeVars, netVars, histVars>>

(***************************************************************************)
(* Host.close (host.py:216-221).                                           *)
(***************************************************************************)
\* host.py:221: the disconnect() tasks, once the stop() tasks are through
Disconnecting ==
    IF transports = {}
    THEN /\ closeErr' = "ValueError"
         /\ closePc' = "raised"
         /\ UNCHANGED discTasks
    ELSE /\ discTasks' = TasksFor(TransportNames, transports)
         /\ closePc' = "disconnecting"
         /\ UNCHANGED closeErr

\* host.py:220: close() is called
CloseBegin ==
    /\ UNCHANGED besideHost
    /\ closePc = "idle"
    /\ IF receivers = {}
       THEN /\ closeErr' = "ValueError"
            /\ closePc' = "raised"
            /\ UNCHANGED stopTasks
       ELSE /\ stopTasks' = TasksFor(ReceiverNames, receivers)
            /\ closePc' = "stopping"
            /\ UNCHANGED closeErr
    /\ inFlight' = procTasks
    /\ UNCHANGED <<discTasks, regVars, runVars, netVars,
                   delivered, fanRecv, calls, completed, raised, lateOps>>

\* receiver.stop() finishes (returns or raises: wait() tells no difference)
StopDone(r) ==
    /\ UNCHANGED besideHost
    /\ stopTasks[r] = "pending"
    /\ stopTasks' = [stopTasks EXCEPT ![r] = "done"]
    /\ UNCHANGED <<closePc, closeErr, discTasks, regVars, runVars, netVars, histVars>>

\* (mutation) the disconnect() tasks are made without awaiting the stop() tasks
CloseStoppedEarly ==
    /\ UNCHANGED besideHost
    /\ closePc = "stopping"
    /\ Disconnecting
    /\ UNCHANGED <<stopTasks, regVars, runVars, netVars, histVars>>

\* host.py:220 returns and host.py:221 runs
CloseStopped ==
    /\ UNCHANGED besideHost
    /\ closePc = "stopping"
    /\ Pending(stopTasks) = {}
    /\ Disconnecting
    /\ UNCHANGED <<stopTasks, regVars, runVars, netVars, histVars>>

\* transport.disconnect() finishes
DisconnectDone(t) ==
    /\ UNCHANGED besideHost
    /\ discTasks[t] = "pending"
    /\ discTasks' = [discTasks EXCEPT ![t] = "done"]
    /\ connected' = [connected EXCEPT ![t] = FALSE]
    /\ UNCHANGED <<closePc, closeErr, stopTasks, inbox, emitted,
                   regVars, runVars, histVars>>

\* host.py:221 returns
CloseDone ==
    /\ UNCHANGED besideHost
    /\ closePc = "disconnecting"
    /\ Pending(discTasks) = {}
    /\ closePc' = "closed"
    /\ UNCHANGED <<closeErr, stopTasks, discTasks, regVars, runVars, netVars, histVars>>

(***************************************************************************)
(* Properties of the dispatch loop and of shutdown.                        *)
(***************************************************************************)
Delivered(e) == \E i \in 1..Len(delivered) : delivered[i] = e

\* C1: dispatch barrier.  process() is started for the merged item on every
\* receiver registered when it is pulled; every process() call in flight
\* belongs to the item being fanned out, and none is in flight while run()
\* asks the merged stream for the next item.
C1_DispatchBarrier ==
    /\ \A p \in procTasks : p.ev = current
    /\ runPc = "pull" => procTasks = {}
    /\ runPc = "fanout" =>
          \A r \in fanRecv[current] :
              [recv |-> r, ev |-> current] \in procTasks \/ <<current, r>> \in completed

\* a second item waits in a merged transport while both receivers still
\* process the first
C1_Witness ==
    /\ runPc = "fanout"
    /\ Cardinality(procTasks) = 2
    /\ \E t \in getters : inbox[t] # <<>>

\* C2: exactly once.  Every merged item is fanned out once, and process() is
\* called exactly once for it on each receiver registered at its fan-out,
\* and on no other receiver.
C2_ExactlyOnce ==
    /\ \A i, j \in 1..Len(delivered) : delivered[i] = delivered[j] => i = j
    /\ \A e \in Events, r \in ReceiverNames :
          calls[<<e, r>>] = IF Delivered(e) /\ r \in fanRecv[e] THEN 1 ELSE 0

\* items of both transports were fanned out to both receivers, all calls over
C2_Witness ==
    /\ Len(delivered) >= 2
    /\ \E i, j \in 1..Len(delivered) : delivered[i][1] # delivered[j][1]
    /\ \A i \in 1..Len(delivered) : fanRecv[delivered[i]] = ReceiverNames
    /\ procTasks = {}

\* C3: fault isolation.  A process() call that raises does not end run();
\* every sibling receiver of that fan-out has its process() called, the
\* fan-out ends only when the siblings' calls are over, and a raising call
\* leaves run() in the dispatch loop.
C3_FaultIsolation ==
    /\ runErr # "ProcessError"
    /\ \A c \in raised : \A r \in fanRecv[c[1]] :
          /\ calls[<<c[1], r>>] = 1
          /\ (runPc = "pull" \/ current # c[1]) => <<c[1], r>> \in completed
    /\ (raised # {} /\ runErr = "none") => runPc \in {"fanout", "pull"}

\* one receiver's call raised, its sibling's call for the same item returned,
\* and a later item was fanned out
C3_Witness ==
    /\ \E c \in raised :
          /\ fanRecv[c[1]] = ReceiverNames
          /\ \A r \in ReceiverNames : <<c[1], r>> \in completed
          /\ current # c[1]
    /\ runPc = "fanout"

\* C4: a connect() or start() that raises is surfaced: run() does not go
\* on to the dispatch loop as if nothing had happened.
C4_StartupFailureSurfaced ==
    ((\E t \in TransportNames : connTasks[t] = "failed")
       \/ (\E r \in ReceiverNames : startTasks[r] = "failed"))
    => (~running /\ (runPc \notin {"idle", "connecting", "starting"} => runErr # "none"))

\* C5: the merged stream keeps each transport's emission order.
C5_PerConnectionOrder ==
    \A i, j \in 1..Len(delivered) :
        (i < j /\ delivered[i][1] = delivered[j][1]) => delivered[i][2] < delivered[j][2]

\* two items of one transport were fanned out with an item of the other
\* transport between them
C5_Witness ==
    /\ Len(delivered) = 3
    /\ delivered[1][1] = delivered[3][1]
    /\ delivered[2][1] # delivered[1][1]

\* C6: close() stops every receiver, and makes the disconnect() tasks only
\* when every stop() is over.
C6_StopThenDisconnect ==
    /\ closePc \in {"stopping", "disconnecting", "closed"} =>
          \A r \in receivers : stopTasks[r] # "none"
    /\ (\E t \in TransportNames : discTasks[t] # "none") =>
          \A r \in receivers : stopTasks[r] = "done"

\* both receivers have stopped and a disconnect() is in progress
C6_Witness ==
    /\ closePc = "disconnecting"
    /\ \A r \in ReceiverNames : stopTasks[r] = "done"
    /\ \E t \in TransportNames : discTasks[t] = "pending"

\* C7: graceful drain.  No disconnect() begins while a process() call that
\* was in flight when close() was called is still in flight.
C7_GracefulDrain ==
    (\E t \in TransportNames : discTasks[t] # "none") => procTasks \cap inFlight = {}

\* C8: run() with no receivers is not fatal: an item pulled while no receiver
\* is registered does not end run() with an error.
C8_NoReceiversNotFatal ==
    \A e \in Events : (Delivered(e) /\ fanRecv[e] = {}) => runErr = "none"

(***************************************************************************)
(* Properties of the registry.                                             *)
(***************************************************************************)
registry == <<transports, receivers, transportOf, receiverOf, channels>>

\* the step is the observed registry call
Makes(call) == regCall' = call /\ regVars' # regVars

\* C18: remove_transport raises the not-registered error for a name that is
\* absent and the still-connected error for a transport that is connected,
\* and both leave the registry as it was; it removes a registered transport
\* that is not connected, and a transport leaves the registry in no other way.
C18_RemoveTransport ==
    [][\A t \in TransportNames :
          /\ Makes(Call("remove_transport", t, <<>>)) =>
                /\ t \notin transports =>
                      (regErr' = "RuntimeError: not registered" /\ UNCHANGED registry)
                /\ (t \in transports /\ connected[t]) =>
                      (regErr' = "RuntimeError: still connected" /\ UNCHANGED registry)
                /\ (t \in transports /\ ~connected[t]) =>
                      /\ regErr' = "none"
                      /\ transports' = transports \ {t}
                      /\ \A n \in transports' : transportOf'[n] = transportOf[n]
                      /\ UNCHANGED <<receivers, receiverOf, channels>>
          /\ (t \in transports /\ t \notin transports') =>
                (~connected[t] /\ regCall' = Call("remove_transport", t, <<>>))]_vars

\* the removal of a connected transport was refused, and it is still
\* registered
C18_Witness ==
    \E t \in TransportNames :
        /\ regCall = Call("remove_transport", t, <<>>)
        /\ regErr = "RuntimeError: still connected"
        /\ t \in transports
        /\ connected[t]

\* C19: add_channel raises the already-registered error for a channel name
\* that is taken and the transport-not-registered error for a transport name
\* that is absent, and both leave the channel registry as it was; otherwise
\* it registers the channel under the name.
C19_AddChannel ==
    [][\A name \in ChannelNames, t \in TransportNames, source \in Sources :
          Makes(Call("add_channel", name, <<t, source>>)) =>
              /\ name \in DOMAIN channels =>
                    (regErr' = "ConfigError: already registered" /\ UNCHANGED registry)
              /\ (name \notin DOMAIN channels /\ t \notin transports) =>
                    (regErr' = "ConfigError: transport not registered" /\ UNCHANGED registry)
              /\ (name \notin DOMAIN channels /\ t \in transports) =>
                    /\ regErr' = "none"
                    /\ DOMAIN channels' = DOMAIN channels \cup {name}
                    /\ channels'[name].transport = t
                    /\ channels'[name].source = source
                    /\ \A c \in DOMAIN channels : channels'[c] = channels[c]]_vars

\* a channel is registered, and a call under its name for another transport
\* was refused
C19_Witness ==
    \E name \in DOMAIN channels :
        /\ regCall.op = "add_channel"
        /\ regCall.name = name
        /\ regCall.args[1] \in transports \ {channels[name].transport}
        /\ regErr = "ConfigError: already registered"

\* C20: add_transport and add_receiver under a name that is taken raise an
\* error and leave the registration as it was; remove_receiver of an absent
\* name raises the not-registered error and leaves the registry as it was.
C20_DuplicateNames ==
    [][/\ \A t \in TransportNames, x \in Instances :
            (Makes(Call("add_transport", t, <<x>>)) /\ t \in transports)
            => (regErr' # "none" /\ UNCHANGED registry)
       /\ \A r \in ReceiverNames, x \in Instances :
            (Makes(Call("add_receiver", r, <<x>>)) /\ r \in receivers)
            => (regErr' # "none" /\ UNCHANGED registry)
       /\ \A r \in ReceiverNames :
            (Makes(Call("remove_receiver", r, <<>>)) /\ r \notin receivers)
            => (regErr' = "RuntimeError: not registered" /\ UNCHANGED registry)]_vars

(***************************************************************************)
(* The IRC plug: lines, message translation, handle() and wait().          *)
(***************************************************************************)
\* inbound lines the read loop handles while callers race for wait()
MaxLines == 2
\* replies the read loop handles for the callers that collect them
MaxReplies == 3
\* the latest second time.time() shows
MaxClock == 1

\* connections opened in a behaviour
MaxConns == 2
\* what the server sends in a behaviour beyond its answers, all together:
\* 433 replies, lines of its own accord and lines that are no IRC lines
MaxTroubles == 2

\* the task of the start() that opens the plug, and per connection the task
\* of its read loop
Opener == "s0"
ReaderOf == <<"s1", "s2", "s3", "s4">>
Tasks == {Opener} \cup {ReaderOf[n] : n \in 1..MaxConns}

\* the tasks that call wait() with arguments of their own, each once, in
\* this order
Racers == {"w1", "w2"}
Before(v, w) == v = "w1" /\ w = "w2"

\* the tasks that call wait()
Callers == Racers \cup Tasks
Tokens == {"315", "352", "401"}
BotNick == "bot"
OtherNick == "ann"
Server == "irc.example"
RealName == "immp bot"

Range(f) == {f[i] : i \in DOMAIN f}

\* Line(command, *args, source=None) (irc.py:67-71)
Line(command, args, source) == [command |-> command, args |-> args, source |-> source]

\* text bodies of a PRIVMSG: plain, or wrapped as "\x01ACTION ...\x01"
Plain(body) == [ctcp |-> FALSE, body |-> body]
CtcpAction(body) == [ctcp |-> TRUE, body |-> body]

\* the lines a server sends: replies and numerics, and the traffic of a channel
InboundLines ==
    {Line(c, <<>>, Server) : c \in Tokens \cup {"433"}}
    \cup {Line("PING", <<"s1">>, Server)}
    \cup {Line("JOIN", <<"#a">>, n) : n \in {BotNick, OtherNick}}
    \cup {Line("PART", <<"#a">>, OtherNick)}
    \cup {Line("PRIVMSG", <<"#a", t>>, OtherNick) : t \in {Plain("hi"), CtcpAction("waves")}}

\* the replies to a WHO (irc.py:312-319): a 352 row per user, told apart here
\* by the user's nick alone, the closing 315, and a 401 refusal
ReplyLines ==
    {Line("352", <<n>>, Server) : n \in {BotNick, OtherNick}}
    \cup {Line(c, <<>>, Server) : c \in {"315", "401"}}

\* the arguments of a wait() call: success, fail and collect, the last two
\* tuples of at most one command here, no command named twice in one call
Registrations ==
    {reg \in [success : Tokens,
              fail : {<<>>} \cup {<<c>> : c \in Tokens},
              collect : {<<>>} \cup {<<c>> : c \in Tokens}] :
        /\ reg.success \notin Range(reg.fail \o reg.collect)
        /\ Range(reg.fail) \cap Range(reg.collect) = {}}
NoReg == [success |-> "", fail |-> <<>>, collect |-> <<>>]
NoData == <<>>

Max(a, b) == IF a >= b THEN a ELSE b

\* (mutation) the wall clock alone
nowClock(clock) == clock

\* Line.now (irc.py:73-85), for time.time() = clock: the new _last_ts
now(clock) == Max(_last_ts + 1, clock)

\* IRCMessage.from_line (irc.py:193-238), for Line.now() = id
from_line(line, id) ==
    LET channel == IF line.args[1] = nick THEN line.source ELSE line.args[1]
    IN  [id |-> id,
         channel |-> channel,
         user |-> line.source,
         text |-> IF line.command = "JOIN" THEN <<"joined", channel>>
                  ELSE IF line.command = "PART" THEN <<"left", channel>>
                  ELSE <<line.args[2].body>>,
         action |-> IF line.command \in {"JOIN", "PART"} THEN TRUE ELSE line.args[2].ctcp,
         joined |-> IF line.command = "JOIN" THEN <<line.source>> ELSE <<>>,
         left |-> IF line.command = "PART" THEN <<line.source>> ELSE <<>>]

\* (mutation) the newest line is put first in its buffer
BufferFront(line) ==
    IF line.command \in DOMAIN _data
    THEN [_data EXCEPT ![line.command] = <<line>> \o @]
    ELSE _data

\* irc.py:341-342: the line is buffered when its command is being collected
Buffer(line) ==
    IF line.command \in DOMAIN _data
    THEN [_data EXCEPT ![line.command] = Append(@, line)]
    ELSE _data

\* irc.py:343-346: the callers whose condition the line notifies
Notified(line) ==
    {_waits[i][2] : i \in {j \in DOMAIN _waits : line.command \in Range(_waits[j][1])}}

\* history: the line joins what every registered caller collecting its
\* command is to be given
Collected(line) ==
    [w \in Callers |->
        IF wpc[w] \in {"blocked", "notified"} /\ line.command \in DOMAIN wexp[w]
        THEN [wexp[w] EXCEPT ![line.command] = Append(@, line)]
        ELSE wexp[w]]

\* (mutation) two underscores are appended
NextNickTwice(n) == n \o "__"

\* irc.py:358: the nick tried after a 433
NextNick(n) == n \o "_"

\* irc.py:350: handle() raises AttributeError on a JOIN when _source is None
HandleRaises(line) == line.command = "JOIN" /\ _source = ""

\* (mutation) every JOIN of the plug's own user is a self-join to drop
SelfJoinAny(sent) == sent.joined # <<>> /\ sent.joined[1] = _source

\* irc.py:350-351: the message is the JOIN of the plug's own user to a
\* channel whose self-join is pending
SelfJoin(sent) ==
    /\ sent.joined # <<>>
    /\ sent.joined[1] = _source
    /\ sent.channel \in _joins

\* IRCPlug.handle (irc.py:340-360) when it returns
handle(line) ==
    /\ ~HandleRaises(line)
    /\ wexp' = Collected(line)
    /\ _data' = Buffer(line)
    /\ wpc' = [w \in Callers |->
                 IF w \in Notified(line) /\ wpc[w] = "blocked" THEN "notified" ELSE wpc[w]]
    /\ IF line.command = "PING"
       THEN /\ wire' = Append(wire, <<"PONG">> \o line.args)
            /\ UNCHANGED <<_joins, _last_ts, nick, queued>>
       ELSE IF line.command \in {"JOIN", "PART", "PRIVMSG"}
       THEN \E clock \in 0..MaxClock :
              LET sent == from_line(line, now(clock))
              IN  /\ _last_ts' = now(clock)
                  /\ IF SelfJoin(sent)
                     THEN /\ _joins' = _joins \ {sent.channel}
                          /\ UNCHANGED queued
                     ELSE /\ queued' = Append(queued, sent)
                          /\ UNCHANGED _joins
                  /\ UNCHANGED <<wire, nick>>
       ELSE IF line.command = "433"
       THEN /\ nick' = NextNick(nick)
            /\ wire' = wire \o << <<"NICK", nick'>>, <<"USER", "immp", "0", "*", RealName>> >>
            /\ UNCHANGED <<_joins, _last_ts, queued>>
       ELSE UNCHANGED <<_joins, _last_ts, nick, wire, queued>>
    /\ collided' = IF line.command = "433" THEN collided + 1 ELSE collided
    /\ UNCHANGED <<_source, _waits, wreg, wret>>

\* irc.py:306-307 with a server that is free to send any line: the read loop
\* decodes a line and handles it
Received(line) ==
    /\ handle(line)
    /\ handled' = handled + 1
    /\ UNCHANGED <<besideIrc, lifeVars, lifeHist>>

\* (mutation) only the collect commands are looked up
AlreadyListeningCollect(reg) == \E c \in Range(reg.collect) : c \in DOMAIN _data

\* irc.py:364: one of the call's fail or collect commands has a buffer
AlreadyListening(reg) == \E c \in Range(reg.fail \o reg.collect) : c \in DOMAIN _data

\* irc.py:366-367: an empty buffer for each fail and collect command
WithBuffers(reg) ==
    [c \in DOMAIN _data \cup Range(reg.fail \o reg.collect) |->
        IF c \in Range(reg.fail \o reg.collect) THEN <<>> ELSE _data[c]]

\* IRCPlug.wait up to its suspension (irc.py:362-373)
wait(w, reg) ==
    /\ UNCHANGED besideIrc
    /\ wpc[w] = "idle"
    /\ \A v \in Callers : Before(v, w) => wpc[v] # "idle"
    /\ wreg' = [wreg EXCEPT ![w] = reg]
    /\ IF AlreadyListening(reg)
       THEN /\ wpc' = [wpc EXCEPT ![w] = "already"]
            /\ UNCHANGED <<_data, _waits, wexp>>
       ELSE /\ _data' = WithBuffers(reg)
            /\ _waits' = Append(_waits, << <<reg.success>> \o reg.fail, w >>)
            /\ wpc' = [wpc EXCEPT ![w] = "blocked"]
            /\ wexp' = [wexp EXCEPT ![w] = [c \in Range(reg.collect) |-> <<>>]]
    /\ UNCHANGED <<wret, plugVars, handled, collided, lifeVars, lifeHist>>

\* list.remove: the list without the first element equal to x
Remove(list, x) ==
    LET i == CHOOSE j \in DOMAIN list : list[j] = x /\ \A k \in 1..(j - 1) : list[k] # x
    IN  SubSeq(list, 1, i - 1) \o SubSeq(list, i + 1, Len(list))

\* irc.py:376: a fail command of the call has a line buffered
Rejected(reg) == \E c \in Range(reg.fail) : _data[c] # <<>>

\* irc.py:379-380: _data without the buffers of the call
WithoutBuffers(reg) ==
    [c \in DOMAIN _data \ Range(reg.fail \o reg.collect) |-> _data[c]]

\* IRCPlug.wait from its wake-up on (irc.py:374-381)
wait_resume(w) ==
    LET reg == wreg[w]
        pair == << <<reg.success>> \o reg.fail, w >>
    IN  /\ UNCHANGED besideIrc
        /\ wpc[w] = "notified"
        /\ _waits' = Remove(_waits, pair)
        /\ IF Rejected(reg)
           THEN /\ wpc' = [wpc EXCEPT ![w] = "rejected"]
                /\ UNCHANGED <<_data, wret>>
           ELSE /\ wpc' = [wpc EXCEPT ![w] = "returned"]
                /\ wret' = [wret EXCEPT ![w] = [c \in Range(reg.collect) |-> _data[c]]]
                /\ _data' = WithoutBuffers(reg)
        /\ UNCHANGED <<wreg, plugVars, handled, wexp, collided, lifeVars, lifeHist>>

\* the far end before a connection is opened, and a server that has sent
\* nothing of its own accord
NoServer == [closed |-> TRUE, registered |-> FALSE, processed |-> 0, nick |-> "", joined |-> {}]
Unused == [collisions |-> 0, extras |-> 0, garbage |-> 0]
Troubles == used.collisions + used.extras + used.garbage
NoLine == Line("", <<>>, "")

\* irc.py:246-255 and irc.py:65, with nobody in wait()
PlugInit ==
    /\ _data = <<>>
    /\ _waits = <<>>
    /\ _joins = {}
    /\ _source = ""
    /\ _last_ts = 0
    /\ nick = BotNick
    /\ wire = <<>>
    /\ queued = <<>>
    /\ handled = 0
    /\ wpc = [w \in Callers |-> "idle"]
    /\ wreg = [w \in Callers |-> NoReg]
    /\ wret = [w \in Callers |-> NoData]
    /\ wexp = [w \in Callers |-> NoData]
    /\ collided = 0
    /\ _reader = ""
    /\ _writer = 0
    /\ spc = [k \in Tasks |-> "none"]
    /\ conns = 0
    /\ inbound = <<>>
    /\ srv = NoServer
    /\ used = Unused
    /\ stopped = FALSE
    /\ lastLine = NoLine
    /\ welcomed = FALSE

\* the plug once start() has returned (irc.py:265-281), with no password and
\* one channel configured: the server knows the plug by its nick, and the
\* self-join of the channel is still to come
ReadyInit ==
    /\ _data = <<>>
    /\ _waits = <<>>
    /\ _joins = {"#a"}
    /\ _source = BotNick
    /\ _last_ts = 0
    /\ nick = BotNick
    /\ wire = << <<"NICK", BotNick>>, <<"USER", "immp", "0", "*", RealName>>,
                 <<"WHO", BotNick>>, <<"JOIN", "#a">> >>
    /\ queued = <<>>
    /\ handled = 0
    /\ wpc = [w \in Callers |-> "idle"]
    /\ wreg = [w \in Callers |-> NoReg]
    /\ wret = [w \in Callers |-> NoData]
    /\ wexp = [w \in Callers |-> NoData]
    /\ collided = 0
    /\ _reader = ReaderOf[1]
    /\ _writer = 1
    /\ spc = [k \in Tasks |-> IF k = Opener THEN "done"
                               ELSE IF k = ReaderOf[1] THEN "reading" ELSE "none"]
    /\ conns = 1
    /\ inbound = <<>>
    /\ srv = [closed |-> FALSE, registered |-> TRUE, processed |-> Len(wire), nick |-> BotNick,
              joined |-> {"#a"}]
    /\ used = Unused
    /\ stopped = FALSE
    /\ lastLine = NoLine
    /\ welcomed = TRUE

(***************************************************************************)
(* The connection: start(), stop() and the read loop (irc.py:265-310), and *)
(* an IRC server at the far end.                                           *)
(***************************************************************************)
\* what readline() returns: the bytes of a line, or nothing at end of input
Raw(line) == [bytes |-> "line", line |-> line]
Eof == [bytes |-> "", line |-> NoLine]
\* a line of nothing but its line ending
Blank == [bytes |-> "CRLF", line |-> NoLine]

\* Line.parse (irc.py:87-91): the text matches Line._format, which asks for a
\* command
Matches(raw) == raw.bytes = "line"

\* the name the plug has in Host.channels, and channel.source.startswith("#")
\* over the sources the model names
PlugName == "t1"
IsRoom(source) == source \in {"#a", "#b"}

\* irc.py:278-279: the sources of the plug's channels that start() joins
Rooms ==
    {channels[c].source :
        c \in {d \in DOMAIN channels :
                  channels[d].transport = PlugName /\ IsRoom(channels[d].source)}}

RECURSIVE SeqOf(_)
SeqOf(S) == IF S = {} THEN <<>> ELSE LET x == CHOOSE y \in S : TRUE IN <<x>> \o SeqOf(S \ {x})

\* (mutation) start() waits for the reply to a nick in use
Wait433 == [success |-> "433", fail |-> <<>>, collect |-> <<>>]

\* the arguments of the wait() calls of start() (irc.py:276) and _who()
\* (irc.py:314)
Wait001 == [success |-> "001", fail |-> <<>>, collect |-> <<>>]
Wait315 == [success |-> "315", fail |-> <<>>, collect |-> <<"352">>]

PairOf(k, reg) == << <<reg.success>> \o reg.fail, k >>

\* irc.py:366-373 for task k, on a list of pairs: the buffers are made, the
\* pair is appended and the task suspends
Suspends(k, reg, waits) ==
    /\ _data' = WithBuffers(reg)
    /\ _waits' = Append(waits, PairOf(k, reg))
    /\ wpc' = [wpc EXCEPT ![k] = "blocked"]
    /\ wreg' = [wreg EXCEPT ![k] = reg]
    /\ wexp' = [wexp EXCEPT ![k] = [c \in Range(reg.collect) |-> <<>>]]

\* the task ends with an exception, out of wait()
Fails(k) ==
    /\ spc' = [spc EXCEPT ![k] = "failed"]
    /\ wpc' = [wpc EXCEPT ![k] = "idle"]

\* no task that a handled line has woken is yet to run: the event loop runs
\* the tasks that are ready before a timer or a connection completes
Quiet == \A j \in Callers : wpc[j] # "notified"

\* irc.py:265-270: start() is called, by the Host for the opener, by
\* _read_loop() after its sleep (irc.py:309-310); it suspends in
\* open_connection()
start(k) ==
    /\ UNCHANGED besideIrc
    /\ \/ k = Opener /\ spc[k] = "none"
       \/ spc[k] = "backoff" /\ Quiet
    /\ spc' = [spc EXCEPT ![k] = "opening"]
    /\ UNCHANGED <<plugVars, waitVars, handled, wexp, collided, lifeHist,
                   _reader, _writer, conns, inbound, srv, used>>

\* irc.py:269-276: open_connection() returns; the read loop's task is made,
\* NICK and USER are written and start() suspends in wait("001")
start_connected(k) ==
    /\ UNCHANGED besideIrc
    /\ spc[k] = "opening"
    /\ Quiet
    /\ conns' = conns + 1
    /\ _writer' = conns'
    /\ _reader' = ReaderOf[conns']
    /\ spc' = [spc EXCEPT ![k] = "wait001", ![ReaderOf[conns']] = "reading"]
    /\ inbound' = <<>>
    /\ srv' = [closed |-> FALSE, registered |-> FALSE, processed |-> 0, nick |-> "",
               joined |-> {}]
    /\ welcomed' = FALSE
    /\ wire' = << <<"NICK", nick>>, <<"USER", "immp", "0", "*", RealName>> >>
    /\ Suspends(k, Wait001, _waits)
    /\ UNCHANGED <<_joins, _source, _last_ts, nick, queued, wret, handled, collided, used,
                   stopped, lastLine>>

\* irc.py:374-381 and 277, then _who() (irc.py:313-314): wait("001") returns,
\* WHO is written and start() suspends in wait("315", collect=("352",))
start_registered(k) ==
    /\ UNCHANGED besideIrc
    /\ spc[k] = "wait001"
    /\ wpc[k] = "notified"
    /\ IF PairOf(k, Wait001) \notin Range(_waits)
       THEN \* list.remove raises ValueError
            /\ Fails(k)
            /\ UNCHANGED <<_data, _waits, wreg, wexp, wire>>
       ELSE IF _writer = 0
       THEN \* write() raises AttributeError
            /\ Fails(k)
            /\ _waits' = Remove(_waits, PairOf(k, Wait001))
            /\ UNCHANGED <<_data, wreg, wexp, wire>>
       ELSE /\ wire' = Append(wire, <<"WHO", nick>>)
            /\ IF AlreadyListening(Wait315)
               THEN \* wait() raises RuntimeError
                    /\ Fails(k)
                    /\ _waits' = Remove(_waits, PairOf(k, Wait001))
                    /\ UNCHANGED <<_data, wreg, wexp>>
               ELSE /\ Suspends(k, Wait315, Remove(_waits, PairOf(k, Wait001)))
                    /\ spc' = [spc EXCEPT ![k] = "wait315"]
    /\ UNCHANGED <<_joins, _source, _last_ts, nick, queued, wret, handled, collided, lifeHist,
                   _reader, _writer, conns, inbound, srv, used>>

\* irc.py:325-329: the rows of the reply that are of the user asked for
RowsOf(rows, username) == SelectSeq(rows, LAMBDA line : line.args[1] = username)

\* irc.py:374-381, 315-319, 325-329 and 277-281: wait("315") returns the
\* rows, the plug's own user is looked up in them, _source is set and every
\* room of the plug is joined
start_identified(k) ==
    /\ UNCHANGED besideIrc
    /\ spc[k] = "wait315"
    /\ wpc[k] = "notified"
    /\ IF PairOf(k, Wait315) \notin Range(_waits) \/ "352" \notin DOMAIN _data
       THEN \* list.remove raises ValueError
            /\ Fails(k)
            /\ UNCHANGED <<_data, _waits, _source, _joins, wire>>
       ELSE /\ _waits' = Remove(_waits, PairOf(k, Wait315))
            /\ _data' = WithoutBuffers(Wait315)
            /\ IF RowsOf(_data["352"], nick) = <<>>
               THEN \* None has no id: AttributeError
                    /\ Fails(k)
                    /\ UNCHANGED <<_source, _joins, wire>>
               ELSE /\ _source' = RowsOf(_data["352"], nick)[1].args[1]
                    /\ IF Rooms # {} /\ _writer = 0
                       THEN \* write() raises AttributeError, the first room added
                            /\ Fails(k)
                            /\ _joins' = _joins \cup {SeqOf(Rooms)[1]}
                            /\ UNCHANGED wire
                       ELSE /\ _joins' = _joins \cup Rooms
                            /\ wire' = wire \o [i \in 1..Cardinality(Rooms) |->
                                                   <<"JOIN", SeqOf(Rooms)[i]>>]
                            /\ spc' = [spc EXCEPT ![k] = "done"]
                            /\ wpc' = [wpc EXCEPT ![k] = "idle"]
    /\ UNCHANGED <<_last_ts, nick, queued, wreg, wret, wexp, handled, collided, lifeHist,
                   _reader, _writer, conns, inbound, srv, used>>

\* (mutation) the read loop ends at end of input
AfterEofEnds == "ended"

\* irc.py:304-310: after end of input the loop is left for sleep() and start()
AfterEof == "backoff"

\* irc.py:297-307: one round of the read loop of connection k's task:
\* readline() returns, and the loop is left at end of input, or the line is
\* decoded and handled; an exception of parse() or handle() ends the task
_read_loop(k) ==
    /\ UNCHANGED besideIrc
    /\ spc[k] = "reading"
    /\ inbound # <<>>
    /\ inbound' = Tail(inbound)
    /\ LET raw == Head(inbound)
       IN  IF raw = Eof
           THEN /\ _reader' = ""
                /\ _writer' = 0
                /\ spc' = [spc EXCEPT ![k] = AfterEof]
                /\ UNCHANGED <<plugVars, waitVars, handled, wexp, collided, lastLine, welcomed>>
           ELSE IF ~Matches(raw)
           THEN /\ spc' = [spc EXCEPT ![k] = "dead"]
                /\ UNCHANGED <<plugVars, waitVars, handled, wexp, collided, lastLine, welcomed,
                               _reader, _writer>>
           ELSE IF HandleRaises(raw.line)
           THEN /\ spc' = [spc EXCEPT ![k] = "dead"]
                /\ _data' = Buffer(raw.line)
                /\ wexp' = Collected(raw.line)
                /\ wpc' = [w \in Callers |->
                             IF w \in Notified(raw.line) /\ wpc[w] = "blocked"
                             THEN "notified" ELSE wpc[w]]
                /\ UNCHANGED <<plugVars, _waits, wreg, wret, handled, collided, lastLine,
                               welcomed, _reader, _writer>>
           ELSE /\ handle(raw.line)
                /\ handled' = handled + 1
                /\ lastLine' = raw.line
                /\ welcomed' = (welcomed \/ raw.line.command = "001")
                /\ UNCHANGED <<spc, _reader, _writer>>
    /\ UNCHANGED <<conns, srv, used, stopped>>

\* IRCPlug.stop (irc.py:283-295), called once, on a plug whose start() has
\* opened a connection: the task in _reader is cancelled, the writer is
\* closed and the plug's state is cleared
stop ==
    /\ UNCHANGED besideIrc
    /\ ~stopped
    /\ spc[Opener] \notin {"none", "opening"}
    /\ stopped' = TRUE
    /\ spc' = [k \in Tasks |-> IF k = _reader /\ spc[k] = "reading" THEN "cancelled" ELSE spc[k]]
    /\ _reader' = ""
    /\ _writer' = 0
    /\ srv' = IF _writer # 0 THEN [srv EXCEPT !.closed = TRUE] ELSE srv
    /\ _source' = ""
    /\ _waits' = <<>>
    /\ _data' = <<>>
    /\ _joins' = {}
    /\ UNCHANGED <<_last_ts, nick, wire, queued, wpc, wreg, wret, wexp, handled, collided,
                   conns, inbound, used, lastLine, welcomed>>

(***************************************************************************)
(* The server.  It takes the lines of the connection in the order they     *)
(* were written: it answers a registration with 001, or with 433 while the *)
(* nick is taken, a WHO with the user's 352 row and 315, and a JOIN with    *)
(* the JOIN of the plug's own user.                                        *)
(***************************************************************************)
\* what the server sends for the line written, once registration is through
Answer(written) ==
    IF written[1] = "WHO" THEN <<Raw(Line("352", <<written[2]>>, Server)),
                                 Raw(Line("315", <<>>, Server))>>
    ELSE IF written[1] = "JOIN" /\ written[2] \notin srv.joined
    THEN <<Raw(Line("JOIN", <<written[2]>>, srv.nick))>>
    ELSE <<>>

\* the place in wire of the first line the server has yet to answer: NICK
\* is answered with its USER, and PONG needs no answer
Unanswered ==
    {i \in (srv.processed + 1)..Len(wire) : wire[i][1] \in {"USER", "WHO", "JOIN"}}
NextWritten == CHOOSE i \in Unanswered : \A j \in Unanswered : i <= j

ServerProcess ==
    /\ UNCHANGED besideIrc
    /\ ~srv.closed
    /\ Unanswered # {}
    /\ LET written == wire[NextWritten]
       IN  IF written[1] = "USER"
           THEN IF srv.registered
                THEN /\ srv' = [srv EXCEPT !.processed = NextWritten]
                     /\ UNCHANGED <<inbound, used>>
                ELSE \/ /\ srv' = [srv EXCEPT !.processed = NextWritten, !.registered = TRUE,
                                               !.nick = wire[NextWritten - 1][2]]
                        /\ inbound' = Append(inbound, Raw(Line("001", <<>>, Server)))
                        /\ UNCHANGED used
                     \/ /\ Troubles < MaxTroubles
                        /\ srv' = [srv EXCEPT !.processed = NextWritten]
                        /\ inbound' = Append(inbound, Raw(Line("433", <<>>, Server)))
                        /\ used' = [used EXCEPT !.collisions = @ + 1]
           ELSE /\ srv' = [srv EXCEPT !.processed = NextWritten,
                                      !.joined = IF written[1] = "JOIN" /\ srv.registered
                                                 THEN @ \cup {written[2]} ELSE @]
                /\ inbound' = IF srv.registered THEN inbound \o Answer(written) ELSE inbound
                /\ UNCHANGED used
    /\ UNCHANGED <<plugVars, waitVars, handled, wexp, collided, lifeHist,
                   _reader, _writer, spc, conns>>

\* the lines the server sends of its own accord: a PING at any time, and in
\* a room the plug is in the JOIN and the messages of another user and a JOIN
\* of the plug's user that the plug did not ask for
ExtraLines ==
    {Line("PING", <<"s1">>, Server)}
    \cup {line \in {Line("JOIN", <<room>>, n) : room \in srv.joined, n \in {srv.nick, OtherNick}}
                   \cup {Line("PRIVMSG", <<room, Plain("hi")>>, OtherNick) : room \in srv.joined} :
             TRUE}

ServerSends(line) ==
    /\ UNCHANGED besideIrc
    /\ ~srv.closed
    /\ Troubles < MaxTroubles
    /\ used' = [used EXCEPT !.extras = @ + 1]
    /\ inbound' = Append(inbound, Raw(line))
    /\ UNCHANGED <<plugVars, waitVars, handled, wexp, collided, lifeHist,
                   _reader, _writer, spc, conns, srv>>

\* the server sends a line of nothing but its line ending
ServerGarbles ==
    /\ UNCHANGED besideIrc
    /\ ~srv.closed
    /\ Troubles < MaxTroubles
    /\ used' = [used EXCEPT !.garbage = @ + 1]
    /\ inbound' = Append(inbound, Blank)
    /\ UNCHANGED <<plugVars, waitVars, handled, wexp, collided, lifeHist,
                   _reader, _writer, spc, conns, srv>>

\* the server closes the connection: the read loop reads end of input after
\* what was sent
ServerCloses ==
    /\ UNCHANGED besideIrc
    /\ ~srv.closed
    /\ conns < MaxConns
    /\ srv' = [srv EXCEPT !.closed = TRUE]
    /\ inbound' = Append(inbound, Eof)
    /\ UNCHANGED <<plugVars, waitVars, handled, wexp, collided, lifeHist,
                   _reader, _writer, spc, conns, used>>

(***************************************************************************)
(* Properties of wait/collect.                                             *)
(***************************************************************************)
\* the caller's registration is pending: its pair is in _waits (it is
\* suspended, or notified and yet to resume)
Waiting(w) == \E i \in DOMAIN _waits : _waits[i][2] = w

\* the commands a wait() call names, and those it has buffered
Names(reg) == {reg.success} \cup Range(reg.fail \o reg.collect)
Buffered(reg) == Range(reg.fail \o reg.collect)

\* the step is w's call of wait()
Calls(w) == wpc[w] = "idle" /\ wpc'[w] # "idle"

C10_RejectionClearsBuffers ==
    [][\A w \in Callers :
          (wpc[w] = "notified" /\ wpc'[w] # "notified" /\ Rejected(wreg[w]))
          => /\ wpc'[w] = "rejected"
             /\ \A c \in Buffered(wreg[w]) : c \notin DOMAIN _data']_vars

\* C11: a waiter that returns is given, for each collect command of its
\* call, the lines with that command handled since the call registered, in
\* arrival order; its return leaves no buffer of its fail and collect
\* commands in _data, and its pair is no longer in _waits.
C11_CollectedInOrder ==
    [][\A w \in Callers :
          (wpc[w] = "notified" /\ wpc'[w] = "returned")
          => /\ wret'[w] = wexp[w]
             /\ DOMAIN wret'[w] = Range(wreg[w].collect)
             /\ \A c \in Buffered(wreg[w]) : c \notin DOMAIN _data'
             /\ ~Waiting(w)']_vars

\* a caller collecting 352 was given two different rows, the buffer is gone
\* and so is its pair
C11_Witness ==
    /\ wpc["w1"] = "returned"
    /\ wreg["w1"].collect = <<"352">>
    /\ Len(wret["w1"]["352"]) = 2
    /\ wret["w1"]["352"][1] # wret["w1"]["352"][2]
    /\ "352" \notin DOMAIN _data
    /\ ~Waiting("w1")

\* the registry calls of a configuration that has one instance per name
RegistryNext ==
    \/ \E t \in TransportNames : add_transport(t, "x") /\ Unobserved
    \/ \E t \in TransportNames : remove_transport(t) /\ Unobserved
    \/ \E r \in ReceiverNames : add_receiver(r, "x") /\ Unobserved
    \/ \E r \in ReceiverNames : remove_receiver(r) /\ Unobserved

RunNext ==
    \/ \E t \in TransportNames : Emit(t)
    \/ RunBegin
    \/ \E t \in TransportNames : ConnectDone(t)
    \/ \E t \in TransportNames : ConnectFail(t)
    \/ RunConnected
    \/ \E r \in ReceiverNames : StartDone(r)
    \/ \E r \in ReceiverNames : StartFail(r)
    \/ RunStarted
    \/ \E t \in TransportNames : Pull(t)
    \/ \E p \in procTasks : ProcessDone(p)
    \/ \E p \in procTasks : ProcessFail(p)
    \/ FanOutDone

CloseNext ==
    \/ CloseBegin
    \/ \E r \in ReceiverNames : StopDone(r)
    \/ CloseStopped
    \/ \E t \in TransportNames : DisconnectDone(t)
    \/ CloseDone

\* the Host from construction: configuration, run() and late registry calls
Init ==
    /\ RegistryInit
    /\ HostInit
    /\ PlugInit
    /\ TextInit
    /\ SendInit

Next == RegistryNext \/ RunNext

Spec == Init /\ [][Next]_vars

\* an instance offered under a name that another instance holds: the model
\* follows Transport.connected by name, so the instance held is not connected
\* nor connecting
Replaces(t, x) ==
    (t \in transports /\ transportOf[t] # x) => (~connected[t] /\ connTasks[t] # "pending")

\* the registry calls, each observed, around run() connecting the transports
ObservedNext ==
    \/ \E t \in TransportNames, x \in Instances :
          Replaces(t, x) /\ add_transport(t, x) /\ Observed("add_transport", t, <<x>>, "none")
    \/ \E t \in TransportNames :
          remove_transport(t) /\ Observed("remove_transport", t, <<>>, RemoveTransportError(t))
    \/ \E name \in ChannelNames, t \in TransportNames, source \in Sources :
          add_channel(name, t, source)
          /\ Observed("add_channel", name, <<t, source>>, AddChannelError(name, t))
    \/ \E name \in ChannelNames :
          remove_channel(name) /\ Observed("remove_channel", name, <<>>, RemoveChannelError(name))
    \/ \E r \in ReceiverNames, x \in Instances :
          add_receiver(r, x) /\ Observed("add_receiver", r, <<x>>, "none")
    \/ \E r \in ReceiverNames :
          remove_receiver(r) /\ Observed("remove_receiver", r, <<>>, RemoveReceiverError(r))
    \/ RunBegin
    \/ \E t \in TransportNames : ConnectDone(t)

SpecRegistry == Init /\ [][ObservedNext]_vars

\* the Channel of the plug for a source
Channel0(source) == [transport |-> PlugName, instance |-> "x", source |-> source]

\* a configured Host: run() and close()
ConfiguredInit ==
    /\ transports \in SUBSET TransportNames
    /\ receivers \in SUBSET ReceiverNames
    /\ transportOf = [t \in transports |-> "x"]
    /\ receiverOf = [r \in receivers |-> "x"]
    /\ channels = <<>>
    /\ regCall = NoCall
    /\ regErr = "none"
    /\ HostInit
    /\ PlugInit
    /\ TextInit
    /\ SendInit

CloseSpecNext == RunNext \/ CloseNext

SpecClose == ConfiguredInit /\ [][CloseSpecNext]_vars

\* a started plug: the read loop handles lines while callers wait()
WaitInit ==
    /\ RegistryInit
    /\ HostInit
    /\ ReadyInit
    /\ TextInit
    /\ SendInit

WaitNext ==
    \/ \E line \in InboundLines : handled < MaxLines /\ Received(line)
    \/ \E w \in Racers, reg \in Registrations : wait(w, reg)
    \/ \E w \in Racers : wait_resume(w)

SpecWait == WaitInit /\ [][WaitNext]_vars

\* a started plug: callers wait() for the replies the read loop handles
CollectNext ==
    \/ \E line \in ReplyLines : handled < MaxReplies /\ Received(line)
    \/ \E w \in Racers, reg \in Registrations : wait(w, reg)
    \/ \E w \in Racers : wait_resume(w)

SpecCollect == WaitInit /\ [][CollectNext]_vars

\* a Host configured with the plug, a room and a private channel of it
PlugConfigured ==
    /\ transports = {PlugName}
    /\ receivers = {}
    /\ transportOf = [t \in {PlugName} |-> "x"]
    /\ receiverOf = <<>>
    /\ channels = [c \in ChannelNames |->
                      IF c = "c1" THEN Channel0("#a") ELSE Channel0(OtherNick)]
    /\ regCall = NoCall
    /\ regErr = "none"

\* the plug from construction: start(), the read loop, the server and stop()
StartInit ==
    /\ PlugConfigured
    /\ HostInit
    /\ PlugInit
    /\ TextInit
    /\ SendInit

PlugNext ==
    \/ \E k \in Tasks : start(k)
    \/ \E k \in Tasks : start_connected(k)
    \/ \E k \in Tasks : start_registered(k)
    \/ \E k \in Tasks : start_identified(k)
    \/ \E k \in Tasks : _read_loop(k)
    \/ ServerProcess

\* the handshake and what follows it on a connection that stays up
StartNext ==
    \/ PlugNext
    \/ \E line \in ExtraLines : ServerSends(line)

SpecStart == StartInit /\ [][StartNext]_vars

\* the plug with a server that closes connections and sends lines that are
\* no IRC lines, and a caller of stop()
ReconnectNext ==
    \/ PlugNext
    \/ ServerCloses
    \/ ServerGarbles
    \/ stop

SpecReconnect == StartInit /\ [][ReconnectNext]_vars

\* the plug with a server that closes connections.  The event loop runs every
\* task that can run, and the server answers what it is sent; it need not
\* close a connection
FairNext ==
    \/ PlugNext
    \/ ServerCloses

Fairness ==
    /\ \A k \in Tasks : /\ WF_vars(start(k))
                         /\ WF_vars(start_connected(k))
                         /\ WF_vars(start_registered(k))
                         /\ WF_vars(start_identified(k))
                         /\ WF_vars(_read_loop(k))
    /\ WF_vars(ServerProcess)

FairReconnect == StartInit /\ [][FairNext]_vars /\ Fairness

\* the plug on a connection that the server keeps up and answers on, with a
\* stop() at any time: the event loop runs every task that can run, and the
\* server answers what it is sent
StopNext ==
    \/ StartNext
    \/ stop

FairStop == StartInit /\ [][StopNext]_vars /\ Fairness

(***************************************************************************)
(* Properties of the connection.                                           *)
(***************************************************************************)
RECURSIVE Underscores(_)
Underscores(k) == IF k = 0 THEN "" ELSE "_" \o Underscores(k - 1)

\* C17: each 433 handled appends one '_' to the nick and resends NICK with
\* the new nick and USER; after k of them the nick is the configured nick
\* followed by k underscores; and start() leaves its wait for 001 only once
\* 001 was handled, the server knowing the plug by that nick.
C17_NickCollisionRetry ==
    /\ [][/\ collided' = collided + 1
             => /\ nick' = nick \o "_"
                /\ wire' = wire \o << <<"NICK", nick \o "_">>,
                                      <<"USER", "immp", "0", "*", RealName>> >>
          /\ (spc[Opener] = "wait001" /\ spc'[Opener] = "wait315")
             => (welcomed /\ srv.nick = nick)]_vars
    /\ [](nick = BotNick \o Underscores(collided))

\* start() has returned after two collisions, the plug known to the server
\* by the nick with two underscores
C17_Witness ==
    /\ collided = 2
    /\ nick = BotNick \o "__"
    /\ spc[Opener] = "done"
    /\ srv.registered /\ srv.nick = nick
    /\ _source = nick

\* the places in wire of the lines written with a command
Written(command) == {i \in DOMAIN wire : wire[i][1] = command}

\* start() of task k is suspended in one of its wait() calls
Blocked(k) == spc[k] \in {"wait001", "wait315"} /\ wpc[k] = "blocked"

\* C16: no JOIN is written on a connection before its 001 was handled, and
\* start() leaves its wait for 001 only once 001 was handled; while start()
\* is suspended in a wait the read loop is reading, it handles every line
\* received, and a PING it handles is answered with a PONG of the PING's
\* arguments.
C16_HandshakeOrdering ==
    /\ [](Written("JOIN") # {} => welcomed)
    /\ []((Blocked(Opener) /\ inbound # <<>>) => ENABLED _read_loop(_reader))
    /\ [][/\ (spc[Opener] = "wait001" /\ spc'[Opener] # "wait001") => welcomed
          /\ (Blocked(Opener) /\ inbound # <<>> /\ inbound' = Tail(inbound))
             => /\ handled' = handled + 1
                /\ lastLine' = Head(inbound).line
                /\ lastLine'.command = "PING"
                   => wire' = Append(wire, <<"PONG">> \o lastLine'.args)]_vars

\* start() has returned with the room joined, and while it waited for 001 a
\* PING was answered: the PONG was written before the WHO
C16_Witness ==
    /\ spc[Opener] = "done"
    /\ Written("JOIN") # {}
    /\ \E i \in Written("PONG") : \A j \in Written("WHO") : i < j

\* the step handles a JOIN line
HandlesJoin == handled' = handled + 1 /\ lastLine'.command = "JOIN"

\* C14: start() makes pending the self-join of each room it writes a JOIN
\* for; a JOIN handled that is of the plug's own user, for a channel whose
\* self-join is pending, is not queued and ends the pending; every other
\* JOIN handled is queued as a message of the user joining the channel, and
\* leaves the pending self-joins as they are; nothing else changes them.
C14_SelfJoinSuppression ==
    [][/\ \A i \in DOMAIN wire' \ DOMAIN wire :
             wire'[i][1] = "JOIN" => (IsRoom(wire'[i][2]) /\ wire'[i][2] \in _joins')
       /\ HandlesJoin
          => LET who == lastLine'.source
                 room == lastLine'.args[1]
             IN  IF who = _source /\ room \in _joins
                 THEN _joins' = _joins \ {room} /\ queued' = queued
                 ELSE /\ _joins' = _joins
                      /\ Len(queued') = Len(queued) + 1
                      /\ SubSeq(queued', 1, Len(queued)) = queued
                      /\ queued'[Len(queued')].joined = <<who>>
                      /\ queued'[Len(queued')].channel = room
       /\ _joins' # _joins
          => \/ HandlesJoin
             \/ \E k \in Tasks : spc[k] = "wait315" /\ spc'[k] # "wait315"]_vars

\* the room's first JOIN of the plug's own user was dropped, and its second
\* and the JOIN of another user are queued
C14_Witness ==
    /\ _joins = {}
    /\ Written("JOIN") # {}
    /\ handled = 6
    /\ Len(queued) = 2
    /\ \E i, j \in DOMAIN queued :
          /\ queued[i].joined = <<_source>>
          /\ queued[j].joined = <<OtherNick>>
          /\ queued[i].channel = "#a" /\ queued[j].channel = "#a"

\* the step is the read loop taking what readline() returned
Reads == inbound # <<>> /\ inbound' = Tail(inbound)

\* C15 as stated: when the read loop reads a line that Line.parse rejects,
\* the task of the read loop goes on reading and the connection stays as it
\* is, so the lines that follow are handled.
C15_UndecodableLineSkipped ==
    [][(Reads /\ Head(inbound) # Eof /\ ~Matches(Head(inbound)))
       => /\ spc'[_reader] = "reading"
          /\ UNCHANGED <<_reader, _writer>>]_vars

\* C13 as stated: once stop() was called, no connection is opened and no
\* registration line is written.
C13_StopIsTerminal ==
    [][stopped => (conns' = conns /\ Written("NICK")' \subseteq Written("NICK"))]_vars

\* the plug is connected and through its handshake: the read loop is
\* reading, 001 was handled on the connection, the plug knows its own user
\* and has written the JOIN of each of its rooms on the connection
Ready ==
    /\ _writer # 0
    /\ _reader # "" /\ spc[_reader] = "reading"
    /\ welcomed
    /\ _source # ""
    /\ \A room \in Rooms : \E i \in Written("JOIN") : wire[i][2] = room

\* a connection was opened and lost
Dropped == conns > 0 /\ _writer = 0

C31_NoWaiterBlockedForever ==
    \A w \in Callers : (wpc[w] = "blocked") ~> (wpc[w] # "blocked")

\* the step is a read loop's task calling start() after its sleep
Reenters(k) == spc[k] = "backoff" /\ spc'[k] = "opening"

\* the step is start() of task k leaving its wait for 001 with the
\* already-listening error of the wait() of _who(): WHO was written
AlreadyListeningInWho(k) ==
    /\ spc[k] = "wait001" /\ spc'[k] = "failed"
    /\ wire' = Append(wire, <<"WHO", nick>>)

\* C30 as stated: when a read loop's task calls start() after end of input,
\* _data holds no buffer and _waits no pair, and no start() ends with the
\* already-listening error.
C30_CleanStateOnReconnect ==
    [][\A k \in Tasks :
          /\ Reenters(k) => (_data = <<>> /\ _waits = <<>>)
          /\ ~AlreadyListeningInWho(k)]_vars

\* caller w was woken by its success line: it is yet to resume, and no line
\* of a fail command of its call is buffered
Succeeded(w) ==
    /\ wpc[w] = "notified"
    /\ \A c \in Range(wreg[w].fail) : c \in DOMAIN _data => _data[c] = <<>>

\* C29 as stated: a line handled after a waiter's success line and before
\* the waiter resumes leaves the buffers of the waiter's fail and collect
\* commands as they were, so it is neither returned nor turns the success
\* into a failure.
C29_CollectWindow ==
    [][\A w \in Callers :
          (Succeeded(w) /\ wpc'[w] = "notified")
          => \A c \in Buffered(wreg[w]) : c \in DOMAIN _data => _data'[c] = _data[c]]_vars

\* C25: each call of Line.now() returns a value that is at least one more
\* than the value of the call before it, whatever the wall clock says, and
\* the value becomes Line._last_ts; so the ids of the messages made of
\* inbound lines increase strictly and no two are the same.
C25_NowStrictlyMonotonic ==
    /\ [][_last_ts' # _last_ts
          => /\ _last_ts' >= _last_ts + 1
             /\ queued' # queued => queued'[Len(queued')].id = _last_ts']_vars
    /\ [](\A i, j \in DOMAIN queued : i < j => queued[i].id < queued[j].id)

\* two messages were made with the wall clock not moving forward between
\* them: the second has the id after the first's
C25_Witness ==
    /\ Len(queued) >= 2
    /\ queued[1].id = MaxClock
    /\ queued[2].id = MaxClock + 1

\* C21 as stated: no two names of Host.channels hold Channels of the same
\* transport and source.
C21_ChannelPairUnique ==
    \A c, d \in DOMAIN channels :
        (channels[c].transport = channels[d].transport
         /\ channels[c].source = channels[d].source) => c = d

\* C32 as stated: the transport of every Channel of Host.channels is
\* registered in Host.transports.
C32_NoDanglingChannels ==
    \A c \in DOMAIN channels : channels[c].transport \in transports

(***************************************************************************)
(* DiscordRichText.to_markdown (discord.py:152-190).  A segment is the set *)
(* of the markup attributes that hold on it; what it contributes to the    *)
(* text besides tags is one token.                                         *)
(***************************************************************************)
\* segments a text may have, and markup attributes that may hold on one
MaxSegments == 3
MaxAttrs == 1

\* DiscordRichText.tags (discord.py:98), in the order of the dict; the
\* backquote is written ^ here
tags == <<"**", "_", "~", "^", "^^^">>
TagAttr == [t \in Range(tags) |->
               CASE t = "**" -> "bold" [] t = "_" -> "italic" [] t = "~" -> "strike"
                 [] t = "^" -> "code" [] OTHER -> "pre"]
Attrs == {TagAttr[t] : t \in Range(tags)}
Segments == {segment \in SUBSET Attrs : Cardinality(segment) <= MaxAttrs}

Reverse(q) == [i \in 1..Len(q) |-> q[Len(q) + 1 - i]]

\* (mutation) no tag is closed before the end
ClosedNone(act, segment) == <<>>

\* discord.py:172-177: the open tags that end at the segment, in the order
\* they are closed
Closed(act, segment) == SelectSeq(Reverse(act), LAMBDA t : TagAttr[t] \notin segment)

\* discord.py:178-182: the tags that start at the segment, in the order they
\* are opened
Opened(act, segment) ==
    SelectSeq(tags, LAMBDA t : TagAttr[t] \in segment /\ t \notin Range(act))

\* to_markdown is called
to_markdown ==
    /\ UNCHANGED besideText
    /\ mpc = "idle"
    /\ mpc' = "loop"
    /\ UNCHANGED <<text, active, segments, called, given, result>>

\* discord.py:171-188: one round of the loop, for the next segment of
\* rich.normalise(): no segment has the attributes of the one before it
to_markdown_segment(segment) ==
    /\ UNCHANGED besideText
    /\ mpc = "loop"
    /\ Len(segments) < MaxSegments
    /\ segments # <<>> => segment # segments[Len(segments)]
    /\ LET closed == Closed(active, segment)
           kept == SelectSeq(active, LAMBDA t : t \notin Range(closed))
           opened == Opened(kept, segment)
       IN  /\ active' = kept \o opened
           /\ text' = text \o closed \o opened \o <<"text">>
    /\ segments' = Append(segments, segment)
    /\ UNCHANGED <<mpc, called, given, result>>

\* discord.py:187-190: the loop is over and the tags still open are closed
to_markdown_end ==
    /\ UNCHANGED besideText
    /\ mpc = "loop"
    /\ text' = text \o Reverse(active)
    /\ mpc' = "done"
    /\ UNCHANGED <<active, segments, called, given, result>>

MarkdownNext ==
    \/ to_markdown
    \/ \E segment \in Segments : to_markdown_segment(segment)
    \/ to_markdown_end

SpecMarkdown == StartInit /\ [][MarkdownNext]_vars

\* how many times the token is in the sequence
Count(q, t) == Cardinality({i \in DOMAIN q : q[i] = t})

\* the tags of the attributes that hold on a segment
TagsOf(segment) == {t \in Range(tags) : TagAttr[t] \in segment}

MaxArgs == 2

Letters == {"a", "b"}
Digits == {"0", "1"}
Chars == Letters \cup Digits \cup {" ", ":", "@", "=", ";"}
NonSpace == Chars \ {" "}

\* the texts an argument may be: empty, a word, words, with a colon at the
\* front or inside
ArgTexts == {<<>>, <<"a">>, <<"a", " ", "b">>, <<":", "a">>, <<"a", ":">>}

\* the tags a Line may be made with: None, or a dict, which is the sequence
\* of its keys here (each value True)
TagDicts == {<<>>, << <<"a">> >>, << <<"a", "b">> >>}

\* the Lines the codec is given
CodecLines ==
    [command : {<<"a", "b">>, <<"0", "0", "1">>},
     args : UNION {[1..n -> ArgTexts] : n \in 0..MaxArgs},
     source : {<<>>, <<"b">>},
     tags : TagDicts]

RECURSIVE Joined(_, _)
Joined(parts, sep) ==
    IF parts = <<>> THEN <<>>
    ELSE IF Len(parts) = 1 THEN parts[1]
    ELSE parts[1] \o sep \o Joined(Tail(parts), sep)

\* irc.py:121-124: the loop takes each member of tags for a pair; a dict
\* gives its keys, and a key of other than two characters cannot be unpacked
TagsUnpack(tagdict) == \A i \in DOMAIN tagdict : Len(tagdict[i]) = 2
TagPart(tagdict) ==
    Joined([i \in DOMAIN tagdict |-> <<tagdict[i][1], "=", tagdict[i][2]>>], <<";">>)

\* Line.__str__ (irc.py:116-127)
Str(line) ==
    IF ~TagsUnpack(line.tags) THEN "ValueError"
    ELSE LET withSource == IF line.source # <<>>
                           THEN <<":">> \o line.source \o <<" ">> \o line.command
                           ELSE line.command
             withTags == IF line.tags # <<>>
                         THEN <<"@">> \o TagPart(line.tags) \o <<" ">> \o withSource
                         ELSE withSource
         IN  IF line.args # <<>>
             THEN Joined(<<withTags>> \o SubSeq(line.args, 1, Len(line.args) - 1)
                           \o << <<":">> \o line.args[Len(line.args)] >>, <<" ">>)
             ELSE withTags

\* the first place from p on whose character is not in S
RECURSIVE Span(_, _, _)
Span(q, p, S) == IF p <= Len(q) /\ q[p] \in S THEN Span(q, p + 1, S) ELSE p

\* Line._format (irc.py:61-63), its (?: +[^: ][^ ]*)* from place p on: the
\* arguments matched and the place after them
RECURSIVE Middle(_, _)
Middle(q, p) ==
    LET s == Span(q, p, {" "})
    IN  IF s > p /\ s <= Len(q) /\ q[s] # ":"
        THEN LET e == Span(q, s, NonSpace)
                 rest == Middle(q, e)
             IN  [args |-> << SubSeq(q, s, e - 1) >> \o rest.args, end |-> rest.end]
        ELSE [args |-> <<>>, end |-> p]

\* Line._format's (?: +:(?P<trailing>.*))? from place p on, and irc.py:112-113:
\* the trailing argument is appended if it is not empty
Trailing(q, p) ==
    LET s == Span(q, p, {" "})
    IN  IF s > p /\ s <= Len(q) /\ q[s] = ":" /\ s < Len(q)
        THEN << SubSeq(q, s + 1, Len(q)) >>
        ELSE <<>>

\* Line.parse (irc.py:87-114): the match of Line._format at the start of the
\* text, or ValueError; of the tags only their place is followed here
Parse(q) ==
    LET tagEnd == IF q # <<>> /\ q[1] = "@" THEN Span(q, 2, NonSpace) ELSE 1
        afterTags == Span(q, tagEnd, {" "})
        tagsOk == tagEnd = 1 \/ (tagEnd > 2 /\ afterTags > tagEnd)
        hasSource == afterTags <= Len(q) /\ q[afterTags] = ":"
        sourceEnd == IF hasSource THEN Span(q, afterTags + 1, NonSpace) ELSE afterTags
        afterSource == Span(q, sourceEnd, {" "})
        sourceOk == ~hasSource \/ (sourceEnd > afterTags + 1 /\ afterSource > sourceEnd)
        lettersEnd == Span(q, afterSource, Letters)
        digitsEnd == Span(q, afterSource, Digits)
        commandEnd == IF lettersEnd > afterSource THEN lettersEnd
                      ELSE IF digitsEnd >= afterSource + 3 THEN afterSource + 3
                      ELSE afterSource
        middle == Middle(q, commandEnd)
    IN  IF ~tagsOk \/ ~sourceOk \/ commandEnd = afterSource
        THEN "ValueError"
        ELSE [command |-> SubSeq(q, afterSource, commandEnd - 1),
              args |-> middle.args \o Trailing(q, middle.end),
              source |-> IF hasSource THEN SubSeq(q, afterTags + 1, sourceEnd - 1) ELSE <<>>]

\* str(line) is taken of the Line given
str_line ==
    /\ UNCHANGED besideText
    /\ called = ""
    /\ called' = "str"
    /\ result' = Str(given)
    /\ UNCHANGED <<text, active, segments, mpc, given>>

\* Line.parse is called with the text str(line) returned
parse_line ==
    /\ UNCHANGED besideText
    /\ called = "str"
    /\ result # "ValueError"
    /\ called' = "parse"
    /\ result' = Parse(result)
    /\ UNCHANGED <<text, active, segments, mpc, given>>

\* a Line is given to the codec
CodecInit ==
    /\ PlugConfigured
    /\ HostInit
    /\ PlugInit
    /\ text = <<>> /\ active = <<>> /\ segments = <<>> /\ mpc = "idle"
    /\ called = ""
    /\ given \in CodecLines
    /\ result = <<>>
    /\ SendInit

CodecNext == str_line \/ parse_line

SpecCodec == CodecInit /\ [][CodecNext]_vars

\* the Line is one the round trip is stated for: no argument before the
\* last has a space in it or a colon at its front
Encodable(line) ==
    \A i \in 1..(Len(line.args) - 1) :
        /\ \A j \in DOMAIN line.args[i] : line.args[i][j] # " "
        /\ (line.args[i] # <<>> => line.args[i][1] # ":")

\* C24 as stated: for a Line with no space in, and no colon at the front
\* of, any argument before its last, str(line) is a text and Line.parse of
\* it returns a Line of the same command, the same arguments in the same
\* order and the same source.
C24_RoundTrip ==
    /\ (called = "str" /\ Encodable(given)) => result # "ValueError"
    /\ (called = "parse" /\ Encodable(given))
       => result = [command |-> given.command, args |-> given.args, source |-> given.source]

(***************************************************************************)
(* DiscordRichText.from_markdown (discord.py:100-143).  A text is the      *)
(* sequence of its parts: stretches of plain text, mentions of a user and  *)
(* references to a channel, each of which the client knows or does not.    *)
(***************************************************************************)
\* parts a text may have
MaxParts == 3

Parts == {"text", "<@known>", "<@unknown>", "<#known>", "<#unknown>"}
Markdowns == UNION {[1..n -> Parts] : n \in 0..MaxParts}

\* discord.py:118-122: the mentions that get_user() finds a user for
Mentions(parts) == {i \in DOMAIN parts : parts[i] = "<@known>"}

\* discord.py:100-102 and 137: a channel reference becomes the name of the
\* channel get_channel() returns; None has no name
SubChannel(part) ==
    IF part = "<#known>" THEN "#name"
    ELSE IF part = "<#unknown>" THEN "AttributeError"
    ELSE part

\* discord.py:123-142: a segment per mention found and per stretch between
\* two of them
RECURSIVE SegmentsOf(_, _)
SegmentsOf(parts, i) ==
    IF i > Len(parts) THEN <<>>
    ELSE IF i \in Mentions(parts)
    THEN << [mention |-> TRUE, text |-> <<"@user">>] >> \o SegmentsOf(parts, i + 1)
    ELSE LET rest == SegmentsOf(parts, i + 1)
         IN  IF rest # <<>> /\ ~rest[1].mention
             THEN << [mention |-> FALSE, text |-> <<SubChannel(parts[i])>> \o rest[1].text] >>
                    \o Tail(rest)
             ELSE << [mention |-> FALSE, text |-> <<SubChannel(parts[i])>>] >> \o rest

\* DiscordRichText.from_markdown (discord.py:104-143): the segments, or the
\* exception of _sub_channel
FromMarkdown(parts) ==
    IF \E i \in DOMAIN parts : i \notin Mentions(parts) /\ SubChannel(parts[i]) = "AttributeError"
    THEN "AttributeError"
    ELSE SegmentsOf(parts, 1)

from_markdown ==
    /\ UNCHANGED besideText
    /\ called = ""
    /\ called' = "from_markdown"
    /\ result' = FromMarkdown(given)
    /\ UNCHANGED <<text, active, segments, mpc, given>>

\* a text is given to from_markdown
MentionsInit ==
    /\ PlugConfigured
    /\ HostInit
    /\ PlugInit
    /\ text = <<>> /\ active = <<>> /\ segments = <<>> /\ mpc = "idle"
    /\ called = ""
    /\ given \in Markdowns
    /\ result = <<>>
    /\ SendInit

SpecMentions == MentionsInit /\ [][from_markdown]_vars

\* C27 as stated: from_markdown returns segments whatever the text refers
\* to, and a mention or reference the client does not know is in the plain
\* text of a segment.
C27_UnresolvedIsPlainText ==
    called = "from_markdown"
    => /\ result # "AttributeError"
       /\ \A i \in DOMAIN given :
             given[i] \in {"<@unknown>", "<#unknown>"}
             => \E k \in DOMAIN result : ~result[k].mention

(***************************************************************************)
(* IRCPlug.put (irc.py:388-429): the lines of a message, written to the    *)
(* server and queued as messages of the plug.                              *)
(***************************************************************************)
\* calls of put by consumers other than the hook, in a behaviour
MaxSends == 1
\* responses the hook sends in a behaviour
MaxAnswers == 3

\* irc.py:394-402: a line of text as _lines() renders it
Rendered(t, user, action, edited) ==
    LET named == IF user = "" THEN t
                 ELSE IF action THEN "* " \o user \o " " \o t
                 ELSE "<" \o user \o "> " \o t
        marked == IF edited THEN "[edit] " \o named ELSE named
    IN  IF user = "" /\ action THEN CtcpAction(marked) ELSE Plain(marked)

\* IRCPlug._lines (irc.py:388-403), for a text as the sequence of its lines
_lines(rich, user, action, edited) ==
    [i \in 1..Len(rich) |-> Rendered(rich[i], user, action, edited)]

\* what a message holds: a File or a Location, with what str() makes of it,
\* or a message, which may be a SentMessage and then may be empty or edited
Attachment(kind, str, txt, user) ==
    [kind |-> kind, str |-> str, text |-> txt, user |-> user, action |-> FALSE,
     edited |-> kind = "SentMessage" /\ txt # <<>>]
Attachments ==
    {Attachment("File", "", <<>>, ""), Attachment("File", "f.png", <<>>, ""),
     Attachment("Location", "home", <<>>, ""),
     Attachment("SentMessage", "", <<>>, ""), Attachment("SentMessage", "", <<"yo">>, OtherNick),
     Attachment("Message", "", <<"yo">>, OtherNick), Attachment("Message", "", <<>>, "")}
AttachmentLists ==
    {<<>>} \cup {<<a>> : a \in Attachments}
    \cup {<<Attachment("File", "f.png", <<>>, ""), Attachment("Message", "", <<"yo">>, OtherNick)>>}

\* the messages given to put: the text as the sequence of its lines
IrcMessages ==
    [text : {<<>>, <<"hi">>, <<"hi", "yo">>},
     user : {"", OtherNick},
     action : BOOLEAN,
     edited : BOOLEAN,
     attachments : AttachmentLists]

\* irc.py:410-421: the lines of an attachment
AttachLines(attach, msg) ==
    IF attach.kind = "File"
    THEN _lines(<<IF attach.str = "" THEN "uploaded a file"
                  ELSE "uploaded a file: " \o attach.str>>, msg.user, TRUE, msg.edited)
    ELSE IF attach.kind = "Location"
    THEN _lines(<<"shared a location: " \o attach.str>>, msg.user, TRUE, msg.edited)
    ELSE IF attach.kind = "SentMessage" /\ attach.text = <<>>
    THEN <<>>
    ELSE IF attach.text # <<>>
    THEN _lines(attach.text, attach.user, attach.action, attach.edited)
    ELSE <<>>

RECURSIVE AttachmentsLines(_, _)
AttachmentsLines(attachs, msg) ==
    IF attachs = <<>> THEN <<>>
    ELSE AttachLines(Head(attachs), msg) \o AttachmentsLines(Tail(attachs), msg)

\* irc.py:406-421: the lines put makes of a message
LinesOf(msg) ==
    (IF msg.text # <<>> THEN _lines(msg.text, msg.user, msg.action, msg.edited) ELSE <<>>)
    \o AttachmentsLines(msg.attachments, msg)

\* Line.now (irc.py:73-85) called once per line, the first time with
\* _last_ts = last, time.time() being what clocks has for each call
RECURSIVE Stamps(_, _)
Stamps(last, clocks) ==
    IF clocks = <<>> THEN <<>>
    ELSE LET ts == Max(last + 1, Head(clocks))
         IN  <<ts>> \o Stamps(ts, Tail(clocks))

\* (mutation) put returns the id of its last line only
IdsLast(stamps) == IF stamps = <<>> THEN <<>> ELSE <<stamps[Len(stamps)]>>

\* irc.py:422 and 428: an id for each line
IdsOf(stamps) == stamps

\* IRCPlug.put (irc.py:405-429) when it returns: each line is written
\* (irc.py:424-425), made a message of the plug's own user (irc.py:426-427)
\* and queued (irc.py:428)
Put(source, msg) ==
    LET lines == LinesOf(msg)
    IN  /\ lines # <<>> => (_writer # 0 /\ _source # "")
        /\ \E stamps \in {Stamps(_last_ts, clocks) : clocks \in [1..Len(lines) -> 0..MaxClock]} :
             /\ wire' = wire \o [i \in 1..Len(lines) |-> <<"PRIVMSG", source, lines[i]>>]
             /\ queued' = queued \o
                    [i \in 1..Len(lines) |->
                        from_line(Line("PRIVMSG", <<source, lines[i]>>, _source), stamps[i])]
             /\ _last_ts' = IF lines = <<>> THEN _last_ts ELSE stamps[Len(lines)]
             /\ ids' = IdsOf(stamps)
        /\ puts' = puts + 1
        /\ called' = "put"
        /\ given' = msg
        /\ result' = ids'
        /\ UNCHANGED <<_joins, _source, nick, waitVars, handled, wexp, collided, lifeVars, lifeHist>>
        /\ UNCHANGED <<hostVars, text, active, segments, mpc>>

\* a consumer sends a message on a channel of the plug
put(source, msg) ==
    /\ puts < MaxSends
    /\ Put(source, msg)
    /\ UNCHANGED <<_sent, hpc, hidx, event, dispatched, own>>

(***************************************************************************)
(* DiscordPlug._put_client (discord.py:423-461), one step: what it asks    *)
(* the channel to send and the ids it returns.                             *)
(***************************************************************************)
\* what a message to Discord holds: image files, other files and locations
DiscordAttachmentLists ==
    UNION {[1..n -> {"image", "file", "location"}] : n \in 0..2}
DiscordMessages ==
    [deleted : BOOLEAN, text : BOOLEAN, reply_to : BOOLEAN, user : BOOLEAN,
     attachments : DiscordAttachmentLists]

\* discord.py:427-441: an embed for each image and each location
RECURSIVE Embeds(_)
Embeds(attachs) ==
    IF attachs = <<>> THEN <<>>
    ELSE IF Head(attachs) = "image" THEN <<"an image">> \o Embeds(Tail(attachs))
    ELSE IF Head(attachs) = "location" THEN <<"a location">> \o Embeds(Tail(attachs))
    ELSE Embeds(Tail(attachs))

\* discord.py:443-448: the message has a request for its text, and the only
\* embed goes with it
Attached(msg, embeds) == (msg.text \/ msg.reply_to) /\ Len(embeds) = 1

\* discord.py:442-457: the requests, oldest first
Requests(msg) ==
    LET embeds == Embeds(msg.attachments)
        rest == IF Attached(msg, embeds) THEN <<>> ELSE embeds
    IN  (IF msg.text \/ msg.reply_to
         THEN << [content |-> "text",
                  embed |-> IF Attached(msg, embeds) THEN embeds[1] ELSE ""] >>
         ELSE <<>>)
        \o [i \in 1..Len(rest) |->
              [content |-> IF msg.user THEN "sent " \o rest[i] ELSE "", embed |-> rest[i]]]

\* the id of the n-th message the channel is asked to send
Snowflake(n) == 100 + n

\* DiscordPlug._put_client (discord.py:423-461): the requests made, and the
\* ids of the responses
PutClient(msg) ==
    IF msg.deleted THEN [sent |-> <<>>, ids |-> <<>>]
    ELSE LET requests == Requests(msg)
         IN  [sent |-> requests, ids |-> [i \in 1..Len(requests) |-> Snowflake(i)]]

_put_client(msg) ==
    /\ puts < MaxSends
    /\ puts' = puts + 1
    /\ called' = "_put_client"
    /\ given' = msg
    /\ result' = PutClient(msg)
    /\ UNCHANGED <<hostVars, ircVars, text, active, segments, mpc>>
    /\ UNCHANGED <<ids, _sent, hpc, hidx, event, dispatched, own>>

SendNext ==
    \/ \E source \in Sources, msg \in IrcMessages : put(source, msg)
    \/ \E msg \in DiscordMessages : _put_client(msg)

SpecSend == WaitInit /\ [][SendNext]_vars

\* the text lines a message to IRC is rendered as: those of its text, one
\* for each File and Location, and those of the text of a message it holds
RECURSIVE TextLines(_)
TextLines(attachs) ==
    IF attachs = <<>> THEN 0
    ELSE (IF Head(attachs).kind \in {"File", "Location"} THEN 1 ELSE Len(Head(attachs).text))
         + TextLines(Tail(attachs))

\* C23: put returns one id per PRIVMSG it wrote, in the order written, each
\* the id of the message made of that line, and as many as the message has
\* rendered text lines; _put_client returns the id of each request's
\* response in the order of the requests, one request for the text, with
\* the only embed attached to it, and one for each other embed; both return
\* an empty list when nothing is sent.
C23_OneIdPerWireMessage ==
    /\ [][(puts' # puts /\ called' = "put")
          => /\ Len(ids') = Len(wire') - Len(wire)
             /\ Len(ids') = Len(given'.text) + TextLines(given'.attachments)
             /\ \A i \in DOMAIN ids' :
                   /\ wire'[Len(wire) + i][1] = "PRIVMSG"
                   /\ queued'[Len(queued) + i].id = ids'[i]
                   /\ queued'[Len(queued) + i].text = <<wire'[Len(wire) + i][3].body>>
                   /\ i > 1 => ids'[i - 1] < ids'[i]]_vars
    /\ [](called = "_put_client"
          => LET embeds == Cardinality({i \in DOMAIN given.attachments :
                                          given.attachments[i] \in {"image", "location"}})
                 worded == ~given.deleted /\ (given.text \/ given.reply_to)
             IN  /\ Len(result.ids) = Len(result.sent)
                 /\ \A i \in DOMAIN result.ids : result.ids[i] = Snowflake(i)
                 /\ Len(result.sent) =
                        IF given.deleted THEN 0
                        ELSE IF worded /\ embeds = 1 THEN 1
                        ELSE (IF worded THEN 1 ELSE 0) + embeds
                 /\ (worded /\ embeds = 1) => result.sent[1].embed # "")

\* put returned the ids of the two lines of a text and of a file's line, in
\* order
C23_Witness ==
    /\ called = "put"
    /\ Len(given.text) = 2
    /\ Len(given.attachments) = 1
    /\ given.attachments[1].kind = "File"
    /\ Len(ids) = 3
    /\ Cardinality(Written("PRIVMSG")) = 3

(***************************************************************************)
(* The run loop hands the plug's messages to AutoRespondHook.process       *)
(* (autorespond.py:67-79), which answers through the plug.                 *)
(***************************************************************************)
\* what the hook is configured with: the channels it answers in, and its
\* responses in the order of the dict
HookChannels == {"#a"}
Responses ==
    << [match |-> "hi", response |-> <<"hi">>],
       [match |-> "h", response |-> <<"yo">>] >>

\* re.search(match, text, re.I) (autorespond.py:76) over the words of the
\* model's texts
Search(match, txt) ==
    \E i \in DOMAIN txt : txt[i] = match \/ (match = "h" /\ txt[i] = "hi")

\* what others say on the channels of the plug
ChatLines ==
    {Line("PRIVMSG", <<s, Plain(t)>>, OtherNick) : s \in {"#a", "#b"}, t \in {"hi", "yo"}}

\* immp.Message(text=response) (autorespond.py:77)
Response(i) ==
    [text |-> Responses[i].response, user |-> "", action |-> FALSE, edited |-> FALSE,
     attachments |-> <<>>]

\* host.py:213-214: the run loop has awaited every process() of the
\* message it took last
FanOutComplete == hpc = "idle"

\* Host.run (host.py:210-214): the run loop takes the next message of the
\* plug and calls process() with it
dispatch ==
    /\ FanOutComplete
    /\ dispatched < Len(queued)
    /\ event' = queued[dispatched + 1]
    /\ dispatched' = dispatched + 1
    /\ hpc' = "called"
    /\ hidx' = 0
    /\ UNCHANGED <<ids, _sent, own, puts>>
    /\ UNCHANGED <<hostVars, ircVars, textVars>>

\* autorespond.py:70-74: process() returns at once
Skipped ==
    \/ event.channel \notin HookChannels
    \/ <<event.channel, event.id>> \in Range(_sent)

\* autorespond.py:75-76: the responses process() has yet to go over, whose
\* match is found in the text
Matching == {i \in DOMAIN Responses : i > hidx /\ Search(Responses[i].match, event.text)}

\* AutoRespondHook.process (autorespond.py:67-79) up to the return of
\* channel.send(), or to its end
process ==
    /\ hpc \in {"called", "recorded"}
    /\ IF (hpc = "called" /\ Skipped) \/ Matching = {}
       THEN /\ hpc' = "idle"
            /\ UNCHANGED <<ids, _sent, hidx, event, dispatched, own, puts>>
            /\ UNCHANGED <<hostVars, ircVars, textVars>>
       ELSE LET i == CHOOSE j \in Matching : \A k \in Matching : j <= k
            IN  /\ puts < MaxAnswers
                /\ Put(event.channel, Response(i))
                /\ hidx' = i
                /\ hpc' = "sent"
                /\ own' = own \cup Range(ids')
                /\ UNCHANGED <<_sent, event, dispatched>>

\* (mutation) nothing is recorded
RecordedNothing(channel, sent) == _sent

\* autorespond.py:77-78: _sent with the ids that channel.send() returned
Recorded(channel, sent) == _sent \o [i \in DOMAIN sent |-> <<channel, sent[i]>>]

\* autorespond.py:77-78: process() resumes with the ids and records them
process_record ==
    /\ hpc = "sent"
    /\ _sent' = Recorded(event.channel, ids)
    /\ hpc' = "recorded"
    /\ UNCHANGED <<ids, hidx, event, dispatched, own, puts>>
    /\ UNCHANGED <<hostVars, ircVars, textVars>>

RespondNext ==
    \/ \E line \in ChatLines : handled < MaxLines /\ Received(line)
    \/ dispatch
    \/ process
    \/ process_record

SpecRespond == WaitInit /\ [][RespondNext]_vars

\* C22 as stated: a message the run loop takes from the plug is never one
\* that put() sent.
C22_SentNotFannedOut == event.id \notin own

\* C28: process() called with a message that has the channel and id of a
\* response the hook sent returns without sending, even where the text
\* matches; and every such message the run loop has taken was recorded in
\* _sent before it was taken.
C28_NoFeedbackLoop ==
    /\ [][(hpc = "called" /\ event.id \in own /\ hpc' # hpc)
          => (hpc' = "idle" /\ wire' = wire /\ puts' = puts)]_vars
    /\ [](\A i \in 1..dispatched :
            queued[i].id \in own => <<queued[i].channel, queued[i].id>> \in Range(_sent))

\* process() has returned from the echo of a response whose text its first
\* trigger matches, and only the two responses to what was said were written
C28_Witness ==
    /\ hpc = "idle"
    /\ event.id \in own
    /\ Search("hi", event.text)
    /\ Cardinality(Written("PRIVMSG")) = 2

====
